---- MODULE Spec2Model ----
(***************************************************************************)
(* EPL-predictions-mlops: the data-ingestion pipeline.                     *)
(*                                                                         *)
(* The module models                                                       *)
(*   - load_data_to_db (pipelines/data_ingestion/                          *)
(*     data_ingestion_common_tasks.py): the delete-then-insert loader,     *)
(*     statement by statement, against a PostgreSQL table;                 *)
(*   - retry_handler (pipelines/hooks.py) and the Prefect task run of      *)
(*     get_season_results that consults it;                                *)
(*   - ingest_data (pipelines/data_ingestion/data_ingestion_aws.py): the   *)
(*     flow that fetches, then submits the archive write and the load.     *)
(***************************************************************************)
EXTENDS Integers, Sequences, FiniteSets, TLC

(***************************************************************************)
(* Bounds of the model.                                                    *)
(***************************************************************************)
\* largest number of rows of an input DataFrame
MaxRows == 2
\* largest multiplicity of one row in an input DataFrame
MaxDup == 2
\* number of ingestion runs (calls of ingest_data) that are followed
MaxRuns == 2
\* largest number of characters of a season value handed to the delete
MaxLabel == 5
\* largest number of rows of a raw DataFrame handed to _clean_data
MaxRawRows == 2
\* the days the clock runs over
MaxDay == 8
\* the longest range of years a backfill is asked for
MaxSeasons == 3

(***************************************************************************)
(* Data: seasons, divisions, rows, DataFrames.                             *)
(***************************************************************************)
Seasons == {"2324", "2425"}

\* the values of the Division enumeration
Division == {"E0", "E1", "E2", "E3", "EC"}

PREMIER_LEAGUE == "E0"

\* the divisions the modelled feed serves rows for
FeedDivisions == {"E0", "E1"}

\* a row of english_league_data: its partition key and its division (the
\* other columns play no part in the loader)
Rows == [season : Seasons, div : FeedDivisions]

RECURSIVE SumOver(_, _)
SumOver(f, S) ==
    IF S = {} THEN 0
    ELSE LET x == CHOOSE y \in S : TRUE IN f[x] + SumOver(f, S \ {x})

\* len(df): the number of rows of a bag of rows
NumRows(b) == SumOver(b, Rows)

EmptyBag == [r \in Rows |-> 0]

RowBags == {b \in [Rows -> 0..MaxDup] : NumRows(b) <= MaxRows}

\* a DataFrame: its rows (with multiplicity) and whether it has a "season"
\* column; without the column the season field of its rows is meaningless
DataFrames ==
    {[rows |-> b, hasSeason |-> TRUE] : b \in RowBags}
    \cup {[rows |-> b, hasSeason |-> FALSE] : b \in {c \in RowBags : NumRows(c) <= 1}}

\* df.empty
IsEmpty(d) == NumRows(d.rows) = 0

\* set(df["season"].unique())
SeasonsOf(d) == {r.season : r \in {x \in Rows : d.rows[x] > 0}}

\* the orders in which df["season"].unique() can list a set of seasons
Orders(S) ==
    {q \in UNION {[1..n -> S] : n \in {Cardinality(S)}} :
        \A i, j \in 1..Cardinality(S) : i # j => q[i] # q[j]}

\* a delete that matches no row
DeleteNothing(t, S) == t

\* DELETE FROM english_league_data WHERE season = :season
DeleteSeasons(t, S) == [r \in Rows |-> IF r.season \in S THEN 0 ELSE t[r]]

\* an insert that replaces the table, as if_exists="replace" would
ReplaceRows(t, b) == b

\* df.to_sql(..., if_exists="append"): the rows are added to the table
AppendRows(t, b) == [r \in Rows |-> t[r] + b[r]]

Loaders == {1, 2}

NoTxn == [active |-> FALSE, deleted |-> {}, inserted |-> EmptyBag, created |-> FALSE]

VARIABLES
    tableExists,  \* english_league_data exists (committed state)
    table,        \* its committed rows, a bag over Rows
    pc,           \* pc[p]: where load_data_to_db call p stands
    df,           \* df[p]: the argument of the call
    todo,         \* todo[p]: the seasons the delete loop has still to visit
    seen,         \* seen[p]: table_exists as the call observed it
    txn,          \* txn[p]: the uncommitted work of the call's connection
    result,       \* result[p]: "none" | "ok" | "raised"
    log,          \* log[p]: the I/O the call has performed, in order
    pre,          \* pre[p]: the committed table when the call started
    prev,         \* prev[p]: result of the call before, and its argument
                  \* when it succeeded
    called,       \* called[p]: the loader has been called at least once
    variant       \* variant[p]: the module whose load_data_to_db is called

loaderVars == <<tableExists, table, pc, df, todo, seen, txn, result, log, pre, prev, called, variant>>

VARIABLES
    flow,      \* the ingest_data flow run: position, run count, state, arguments
    fetch,     \* the get_season_results task run: position, run count, error
    runs,      \* ingestion runs started so far
    denied,    \* the feed has answered 401 or 404 in this flow run
    cleaned,   \* the DataFrame get_season_results returned
    archive,   \* the object store: what is stored under each key
    up,        \* the upload_to_s3 task run: state and run count
    ld         \* the load_data_to_db task run: state and run count

flowVars == <<flow, fetch, runs, denied, cleaned, archive, up, ld>>

VARIABLES
    call       \* the last call of a helper function: its arguments and result

VARIABLES
    clock,     \* the day it is
    cache,     \* the result store of get_season_results: an entry per key
    served       \* the served get_season_results task run: key, day, source

cacheVars == <<clock, cache, served>>

VARIABLES
    partial    \* the (season, division) pairs left half-done: a run ended
               \* with exactly one of archive write and load failed, and no
               \* run in which both succeeded has followed

VARIABLES
    training,  \* the epl_training_pipeline flow run and its two last tasks
    registry   \* the MLflow model registry: versions and aliases

trainVars == <<training, registry>>

VARIABLES
    backfill   \* the run_backfill_deployments call: position, seasons, lists,
               \* and the deployment runs and sleeps it has made, in order

auxVars == <<cacheVars, partial, trainVars, backfill>>

vars == <<loaderVars, flowVars, call, auxVars>>

NoFrame == [rows |-> EmptyBag, hasSeason |-> FALSE]

\* no call of load_data_to_db has been made
InitCalls ==
    /\ pc = [p \in Loaders |-> "idle"]
    /\ df = [p \in Loaders |-> NoFrame]
    /\ todo = [p \in Loaders |-> <<>>]
    /\ seen = [p \in Loaders |-> FALSE]
    /\ txn = [p \in Loaders |-> NoTxn]
    /\ result = [p \in Loaders |-> "none"]
    /\ log = [p \in Loaders |-> <<>>]
    /\ pre = [p \in Loaders |-> [exists |-> FALSE, rows |-> EmptyBag]]
    /\ prev = [p \in Loaders |-> [df |-> NoFrame, result |-> "none"]]
    /\ called = [p \in Loaders |-> FALSE]
    /\ variant = [p \in Loaders |-> "common"]

\* the database before the first load: english_league_data is absent, or
\* present and empty
InitLoader ==
    /\ tableExists \in BOOLEAN
    /\ table = EmptyBag
    /\ InitCalls

(***************************************************************************)
(* load_data_to_db, one action per statement.                              *)
(***************************************************************************)

\* the lock a call holds on the table: ROW EXCLUSIVE once it has deleted or
\* inserted, ACCESS EXCLUSIVE once it has dropped or created the table
HoldsRowLock(p) == txn[p].active /\ (txn[p].deleted # {} \/ txn[p].inserted # EmptyBag)
HoldsTableLock(p) == txn[p].active /\ txn[p].created

\* the modules that define a load_data_to_db
Variants == {"common", "aws", "local"}

\* what the call does first: the common loader is handed database_url and
\* starts with its checks (line 164); the aws loader starts with
\* _get_database_url() (data_ingestion_aws.py line 190) and the local one with
\* get_config().database_url (data_ingestion_local.py line 139)
FirstStep(v) == IF v = "common" THEN "validate" ELSE "lookup"

\* the lookup the loader of module v performs: _get_database_url reads the
\* Prefect variable "database-secrets", the credentials block and the AWS
\* secret; get_config reads the environment and the .env file
LookupOf(v) == IF v = "aws" THEN "get_database_url" ELSE "get_config"

\* load_data_to_db of module v is entered.  Callers serialise loads of the
\* same season: a call does not start while another call for one of its
\* seasons is running.
CallOf(p, d, v) ==
    /\ pc[p] = "idle"
    /\ UNCHANGED <<flowVars, call, auxVars>>
    /\ \A q \in Loaders \ {p} :
          pc[q] # "idle" => SeasonsOf(d) \cap SeasonsOf(df[q]) = {}
    /\ pc' = [pc EXCEPT ![p] = FirstStep(v)]
    /\ df' = [df EXCEPT ![p] = d]
    /\ variant' = [variant EXCEPT ![p] = v]
    /\ result' = [result EXCEPT ![p] = "none"]
    /\ log' = [log EXCEPT ![p] = <<>>]
    /\ pre' = [pre EXCEPT ![p] = [exists |-> tableExists, rows |-> table]]
    /\ prev' = [prev EXCEPT ![p] = IF result[p] = "ok"
                                    THEN [df |-> df[p], result |-> "ok"]
                                    ELSE [df |-> NoFrame, result |-> result[p]]]
    /\ called' = [called EXCEPT ![p] = TRUE]
    /\ UNCHANGED <<tableExists, table, todo, seen, txn>>

\* load_data_to_db(df, database_url) of data_ingestion_common_tasks
Call(p, d) == CallOf(p, d, "common")

\* aws line 190, local line 139: the database URL is looked up
Lookup(p) ==
    /\ pc[p] = "lookup"
    /\ UNCHANGED <<flowVars, call, auxVars>>
    /\ log' = [log EXCEPT ![p] = Append(@, LookupOf(variant[p]))]
    /\ pc' = [pc EXCEPT ![p] = "validate"]
    /\ UNCHANGED <<tableExists, table, df, todo, seen, txn, result, pre, prev, called, variant>>

\* the lookup raises (variable or secret missing, settings incomplete)
LookupFail(p) ==
    /\ pc[p] = "lookup"
    /\ UNCHANGED <<flowVars, call, auxVars>>
    /\ log' = [log EXCEPT ![p] = Append(@, LookupOf(variant[p]))]
    /\ pc' = [pc EXCEPT ![p] = "idle"]
    /\ result' = [result EXCEPT ![p] = "raised"]
    /\ UNCHANGED <<tableExists, table, df, todo, seen, txn, pre, prev, called, variant>>

\* a validation that checks the season column before the emptiness
ValidateSeasonFirst(p) ==
    /\ pc[p] = "validate"
    /\ UNCHANGED <<flowVars, call, auxVars>>
    /\ IF ~df[p].hasSeason
       THEN /\ pc' = [pc EXCEPT ![p] = "idle"]
            /\ result' = [result EXCEPT ![p] = "raised"]
            /\ UNCHANGED <<todo, log>>
       ELSE IF IsEmpty(df[p])
       THEN /\ pc' = [pc EXCEPT ![p] = "idle"]
            /\ result' = [result EXCEPT ![p] = "ok"]
            /\ UNCHANGED <<todo, log>>
       ELSE /\ \E order \in Orders(SeasonsOf(df[p])) :
                  todo' = [todo EXCEPT ![p] = order]
            /\ log' = [log EXCEPT ![p] = Append(@, "create_engine")]
            /\ pc' = [pc EXCEPT ![p] = "connect"]
            /\ UNCHANGED result
    /\ UNCHANGED <<tableExists, table, df, seen, txn, pre, prev, called, variant>>

\* lines 164-176: the empty check, the season-column check, the seasons and
\* create_engine
Validate(p) ==
    /\ pc[p] = "validate"
    /\ UNCHANGED <<flowVars, call, auxVars>>
    /\ IF IsEmpty(df[p])
       THEN /\ pc' = [pc EXCEPT ![p] = "idle"]
            /\ result' = [result EXCEPT ![p] = "ok"]
            /\ UNCHANGED <<todo, log>>
       ELSE IF ~df[p].hasSeason
       THEN /\ pc' = [pc EXCEPT ![p] = "idle"]
            /\ result' = [result EXCEPT ![p] = "raised"]
            /\ UNCHANGED <<todo, log>>
       ELSE /\ \E order \in Orders(SeasonsOf(df[p])) :
                  todo' = [todo EXCEPT ![p] = order]
            /\ log' = [log EXCEPT ![p] = Append(@, "create_engine")]
            /\ pc' = [pc EXCEPT ![p] = "connect"]
            /\ UNCHANGED result
    /\ UNCHANGED <<tableExists, table, df, seen, txn, pre, prev, called, variant>>

\* line 178: engine.connect()
Connect(p) ==
    /\ pc[p] = "connect"
    /\ UNCHANGED <<flowVars, call, auxVars>>
    /\ log' = [log EXCEPT ![p] = Append(@, "connect")]
    /\ pc' = [pc EXCEPT ![p] = "inspect"]
    /\ UNCHANGED <<tableExists, table, df, todo, seen, txn, result, pre, prev, called, variant>>

\* line 178: engine.connect() fails; nothing has been done yet
ConnectFail(p) ==
    /\ pc[p] = "connect"
    /\ UNCHANGED <<flowVars, call, auxVars>>
    /\ log' = [log EXCEPT ![p] = Append(@, "connect")]
    /\ pc' = [pc EXCEPT ![p] = "idle"]
    /\ result' = [result EXCEPT ![p] = "raised"]
    /\ UNCHANGED <<tableExists, table, df, todo, seen, txn, pre, prev, called, variant>>

\* lines 180-183: the inspector reads the committed catalogue
Inspect(p) ==
    /\ pc[p] = "inspect"
    /\ UNCHANGED <<flowVars, call, auxVars>>
    /\ seen' = [seen EXCEPT ![p] = tableExists]
    /\ log' = [log EXCEPT ![p] = Append(@, "inspect")]
    /\ pc' = [pc EXCEPT ![p] = IF tableExists THEN "begin" ELSE "create"]
    /\ UNCHANGED <<tableExists, table, df, todo, txn, result, pre, prev, called, variant>>

\* line 187: transaction = connection.begin()
Begin(p) ==
    /\ pc[p] = "begin"
    /\ UNCHANGED <<flowVars, call, auxVars>>
    /\ txn' = [txn EXCEPT ![p] = [NoTxn EXCEPT !.active = TRUE]]
    /\ log' = [log EXCEPT ![p] = Append(@, "begin")]
    /\ pc' = [pc EXCEPT ![p] = "delete"]
    /\ UNCHANGED <<tableExists, table, df, todo, seen, result, pre, prev, called, variant>>

\* line 187: connection.begin() raises, outside the try block: no
\* transaction was begun and none is rolled back
BeginFail(p) ==
    /\ pc[p] = "begin"
    /\ UNCHANGED <<flowVars, call, auxVars>>
    /\ log' = [log EXCEPT ![p] = Append(@, "begin_failed")]
    /\ pc' = [pc EXCEPT ![p] = "idle"]
    /\ result' = [result EXCEPT ![p] = "raised"]
    /\ UNCHANGED <<tableExists, table, df, todo, seen, txn, pre, prev, called, variant>>

\* lines 193-198: one pass of the delete loop; the statement waits while
\* another connection holds the table exclusively
DeleteSeason(p) ==
    /\ pc[p] = "delete"
    /\ UNCHANGED <<flowVars, call, auxVars>>
    /\ todo[p] # <<>>
    /\ \A q \in Loaders \ {p} : ~HoldsTableLock(q)
    /\ txn' = [txn EXCEPT ![p].deleted = @ \cup {Head(todo[p])}]
    /\ todo' = [todo EXCEPT ![p] = Tail(@)]
    /\ log' = [log EXCEPT ![p] = Append(@, "delete")]
    /\ UNCHANGED <<tableExists, table, pc, df, seen, result, pre, prev, called, variant>>

\* lines 193-198: connection.execute raises
DeleteFail(p) ==
    /\ pc[p] = "delete"
    /\ UNCHANGED <<flowVars, call, auxVars>>
    /\ todo[p] # <<>>
    /\ log' = [log EXCEPT ![p] = Append(@, "delete")]
    /\ pc' = [pc EXCEPT ![p] = "rollback"]
    /\ UNCHANGED <<tableExists, table, df, todo, seen, txn, result, pre, prev, called, variant>>

\* lines 201-208: df.to_sql(if_exists="append") inside the transaction
Insert(p) ==
    /\ pc[p] = "delete"
    /\ UNCHANGED <<flowVars, call, auxVars>>
    /\ todo[p] = <<>>
    /\ \A q \in Loaders \ {p} : ~HoldsTableLock(q)
    /\ txn' = [txn EXCEPT ![p].inserted = df[p].rows]
    /\ log' = [log EXCEPT ![p] = Append(@, "insert")]
    /\ pc' = [pc EXCEPT ![p] = "commit"]
    /\ UNCHANGED <<tableExists, table, df, todo, seen, result, pre, prev, called, variant>>

\* lines 201-208: df.to_sql raises
InsertFail(p) ==
    /\ pc[p] = "delete"
    /\ UNCHANGED <<flowVars, call, auxVars>>
    /\ todo[p] = <<>>
    /\ log' = [log EXCEPT ![p] = Append(@, "insert")]
    /\ pc' = [pc EXCEPT ![p] = "rollback"]
    /\ UNCHANGED <<tableExists, table, df, todo, seen, txn, result, pre, prev, called, variant>>

\* a transaction whose insert ran before its deletes
CommittedInsertFirst(t, x) == DeleteSeasons(AppendRows(t, x.inserted), x.deleted)

\* what a committed transaction leaves in the table
Committed(t, x) == AppendRows(DeleteSeasons(t, x.deleted), x.inserted)

\* line 211: transaction.commit()
Commit(p) ==
    /\ pc[p] = "commit"
    /\ UNCHANGED <<flowVars, call, auxVars>>
    /\ table' = Committed(table, txn[p])
    /\ txn' = [txn EXCEPT ![p] = NoTxn]
    /\ log' = [log EXCEPT ![p] = Append(@, "commit")]
    /\ pc' = [pc EXCEPT ![p] = "idle"]
    /\ result' = [result EXCEPT ![p] = "ok"]
    /\ UNCHANGED <<tableExists, df, todo, seen, pre, prev, called, variant>>

\* line 211: transaction.commit() raises
CommitFail(p) ==
    /\ pc[p] = "commit"
    /\ UNCHANGED <<flowVars, call, auxVars>>
    /\ log' = [log EXCEPT ![p] = Append(@, "commit_failed")]
    /\ pc' = [pc EXCEPT ![p] = "rollback"]
    /\ UNCHANGED <<tableExists, table, df, todo, seen, txn, result, pre, prev, called, variant>>

\* an error path that re-raises without rolling back
RaiseWithoutRollback(p) ==
    /\ pc[p] = "rollback"
    /\ UNCHANGED <<flowVars, call, auxVars>>
    /\ txn' = [txn EXCEPT ![p] = NoTxn]
    /\ pc' = [pc EXCEPT ![p] = "idle"]
    /\ result' = [result EXCEPT ![p] = "raised"]
    /\ UNCHANGED <<tableExists, table, df, todo, seen, log, pre, prev, called, variant>>

\* an error path that leaves the deletes of the transaction in the table
RollbackKeepsDeletes(p) ==
    /\ pc[p] = "rollback"
    /\ UNCHANGED <<flowVars, call, auxVars>>
    /\ table' = DeleteSeasons(table, txn[p].deleted)
    /\ txn' = [txn EXCEPT ![p] = NoTxn]
    /\ log' = [log EXCEPT ![p] = Append(@, "rollback")]
    /\ pc' = [pc EXCEPT ![p] = "idle"]
    /\ result' = [result EXCEPT ![p] = "raised"]
    /\ UNCHANGED <<tableExists, df, todo, seen, pre, prev, called, variant>>

\* lines 217-221: except Exception: transaction.rollback(); raise e
Rollback(p) ==
    /\ pc[p] = "rollback"
    /\ UNCHANGED <<flowVars, call, auxVars>>
    /\ txn' = [txn EXCEPT ![p] = NoTxn]
    /\ log' = [log EXCEPT ![p] = Append(@, "rollback")]
    /\ pc' = [pc EXCEPT ![p] = "idle"]
    /\ result' = [result EXCEPT ![p] = "raised"]
    /\ UNCHANGED <<tableExists, table, df, todo, seen, pre, prev, called, variant>>

\* lines 225-231, first half: df.to_sql(if_exists="replace") opens its own
\* transaction, drops the table if it finds one and creates it; the
\* statements wait while another connection holds a lock on the table
Create(p) ==
    /\ pc[p] = "create"
    /\ UNCHANGED <<flowVars, call, auxVars>>
    /\ \A q \in Loaders \ {p} : ~HoldsTableLock(q) /\ ~HoldsRowLock(q)
    /\ txn' = [txn EXCEPT ![p] = [NoTxn EXCEPT !.active = TRUE, !.created = TRUE]]
    /\ log' = [log EXCEPT ![p] = Append(@, "create")]
    /\ pc' = [pc EXCEPT ![p] = "first_insert"]
    /\ UNCHANGED <<tableExists, table, df, todo, seen, result, pre, prev, called, variant>>

\* lines 225-231: DROP or CREATE TABLE raises; PostgreSQL discards the
\* transaction
CreateFail(p) ==
    /\ pc[p] = "create"
    /\ UNCHANGED <<flowVars, call, auxVars>>
    /\ txn' = [txn EXCEPT ![p] = NoTxn]
    /\ log' = [log EXCEPT ![p] = Append(@, "create")]
    /\ pc' = [pc EXCEPT ![p] = "idle"]
    /\ result' = [result EXCEPT ![p] = "raised"]
    /\ UNCHANGED <<tableExists, table, df, todo, seen, pre, prev, called, variant>>

\* lines 225-231, second half: the rows are inserted into the new table
\* and to_sql commits
FirstInsert(p) ==
    /\ pc[p] = "first_insert"
    /\ UNCHANGED <<flowVars, call, auxVars>>
    /\ tableExists' = TRUE
    /\ table' = df[p].rows
    /\ txn' = [txn EXCEPT ![p] = NoTxn]
    /\ log' = [log EXCEPT ![p] = Append(@, "insert")]
    /\ pc' = [pc EXCEPT ![p] = "idle"]
    /\ result' = [result EXCEPT ![p] = "ok"]
    /\ UNCHANGED <<df, todo, seen, pre, prev, called, variant>>

\* lines 225-231: the INSERT raises; PostgreSQL discards the transaction,
\* the CREATE TABLE included
FirstInsertFail(p) ==
    /\ pc[p] = "first_insert"
    /\ UNCHANGED <<flowVars, call, auxVars>>
    /\ txn' = [txn EXCEPT ![p] = NoTxn]
    /\ log' = [log EXCEPT ![p] = Append(@, "insert")]
    /\ pc' = [pc EXCEPT ![p] = "idle"]
    /\ result' = [result EXCEPT ![p] = "raised"]
    /\ UNCHANGED <<tableExists, table, df, todo, seen, pre, prev, called, variant>>

(***************************************************************************)
(* The fetch task and its retry policy.                                    *)
(***************************************************************************)

\* @task(retries=3, retry_condition_fn=retry_handler) on get_season_results
TaskRetries == 3
\* @task(retries=1, retry_delay_seconds=5) on _clean_data
CleanRetries == 1
\* @task(retries=3, retry_delay_seconds=5) on upload_to_s3
UploadRetries == 3
\* @task(retries=3, retry_delay_seconds=5) on load_data_to_db
LoadRetries == 3
\* @flow(retries=3, retry_delay_seconds=10) on ingest_data
FlowRetries == 3

\* what requests.get / raise_for_status / the body check can raise
HTTPErrors == {"http401", "http404", "http500"}
\* requests.ConnectTimeout derives from requests.ConnectionError
ConnectionErrors == {"connection_error", "connect_timeout"}
RequestErrors == HTTPErrors \cup ConnectionErrors \cup {"read_timeout", "empty_body"}
\* what _clean_data can raise
CleanErrors == {"empty_frame", "no_required_columns", "missing_columns"}

status_code(e) ==
    CASE e = "http401" -> 401
      [] e = "http404" -> 404
      [] e = "http500" -> 500
      [] OTHER -> 0

do_not_retry_on_these_codes == {401, 404}

\* a handler that retries nothing but HTTP errors
retry_handler_http_only(e) ==
    IF e \in HTTPErrors THEN status_code(e) \notin do_not_retry_on_these_codes
    ELSE FALSE

\* retry_handler(task, task_run, state): may the failed attempt be retried?
retry_handler(e) ==
    IF e \in HTTPErrors THEN status_code(e) \notin do_not_retry_on_these_codes
    ELSE IF e \in ConnectionErrors THEN FALSE
    ELSE TRUE

\* ensure_division(division)
DivisionInputs ==
    {[kind |-> "str", val |-> c] : c \in FeedDivisions \cup {"XX"}}
    \cup {[kind |-> "enum", val |-> c] : c \in FeedDivisions}
    \cup {[kind |-> "none", val |-> "-"], [kind |-> "other", val |-> "-"]}

\* a resolution that falls back to the Premier League for every unknown input
ensure_division_lenient(dv) ==
    IF dv.kind \in {"str", "enum"} /\ dv.val \in Division
    THEN [ok |-> TRUE, value |-> dv.val]
    ELSE [ok |-> TRUE, value |-> PREMIER_LEAGUE]

ensure_division(dv) ==
    IF dv.kind = "str"
    THEN IF dv.val \in Division
         THEN [ok |-> TRUE, value |-> dv.val]
         ELSE [ok |-> FALSE, value |-> "-"]
    ELSE IF dv.kind = "none" THEN [ok |-> TRUE, value |-> PREMIER_LEAGUE]
    ELSE IF dv.kind # "enum" THEN [ok |-> FALSE, value |-> "-"]
    ELSE [ok |-> TRUE, value |-> dv.val]

\* the cleaned record sets get_season_results can return for a season and a
\* division: at most one row per identity, all of that season and division
CleanedFrames(s, c) ==
    {[rows |-> b, hasSeason |-> TRUE] :
        b \in {x \in [Rows -> 0..1] : \A r \in Rows : x[r] > 0 => r.season = s /\ r.div = c}}

\* the directories an object key or a file path can start with
Prefixes == {<<>>, <<"raw">>, <<"data", "raw">>}

\* the keys of the object store and the paths of the local file system: the
\* directories, then <season>_<division>.parquet
Keys == [prefix : Prefixes, season : Seasons, division : FeedDivisions]

\* file_name = f"{season}_{division.value}.parquet"
file_name(s, c) == [prefix |-> <<>>, season |-> s, division |-> c]

None == [rows |-> EmptyBag, stored |-> FALSE]

\* where an archive write can fail: the bucket variable is unset, the
\* credentials block does not load, the write is refused
Faults == {"none", "no_bucket", "credentials", "write"}

\* what an archive write ends with: whether it raised, the interactions
\* with the store it performed, the store it leaves
Archived(raised, io, store) == [raised |-> raised, io |-> io, store |-> store]

\* an upload without the emptiness check
upload_unchecked(name, d, store, fault) ==
    Archived(FALSE, <<"Variable.get", "AwsCredentials.load", "boto3.client", "put_object">>,
             [store EXCEPT ![name] = [rows |-> d.rows, stored |-> TRUE]])

\* upload_to_s3(file_name, df), data_ingestion_aws.py lines 156-184
upload_to_s3(name, d, store, fault) ==
    IF IsEmpty(d) THEN Archived(TRUE, <<>>, store)
    ELSE IF fault = "no_bucket" THEN Archived(TRUE, <<"Variable.get">>, store)
    ELSE IF fault = "credentials"
    THEN Archived(TRUE, <<"Variable.get", "AwsCredentials.load">>, store)
    ELSE IF fault = "write"
    THEN Archived(TRUE, <<"Variable.get", "AwsCredentials.load", "boto3.client", "put_object">>, store)
    ELSE Archived(FALSE, <<"Variable.get", "AwsCredentials.load", "boto3.client", "put_object">>,
                  [store EXCEPT ![name] = [rows |-> d.rows, stored |-> TRUE]])

\* data_ingestion_local.py line 130:
\* Path(__file__).parent.parent / "data/raw" / file_name
file_path(name) == [name EXCEPT !.prefix = <<"data", "raw">> \o @]

\* save_local(file_name, df), data_ingestion_local.py lines 119-133
save_local(name, d, store, fault) ==
    IF IsEmpty(d) THEN Archived(TRUE, <<>>, store)
    ELSE IF fault = "write" THEN Archived(TRUE, <<"to_parquet">>, store)
    ELSE Archived(FALSE, <<"to_parquet">>,
                  [store EXCEPT ![file_path(name)] = [rows |-> d.rows, stored |-> TRUE]])

NoFlow == [pc |-> "idle", run |-> 0, state |-> "none", season |-> "-",
           division |-> [kind |-> "none", val |-> "-"], code |-> "-"]
NoFetch == [pc |-> "idle", run |-> 0, err |-> "none", outcome |-> "none", cleanRun |-> 0]
NoTask == [state |-> "none", run |-> 0]

\* no helper function has been called
NoCall == [fn |-> "none"]

InitFlow ==
    /\ flow = NoFlow
    /\ fetch = NoFetch
    /\ runs = 0
    /\ denied = FALSE
    /\ cleaned = NoFrame
    /\ archive = [k \in Keys |-> None]
    /\ up = NoTask
    /\ ld = NoTask

InitHelpers == call = NoCall

\* cron "0 0 * 8-12,1-6 6": every Saturday at midnight UTC, in days
schedule_interval == 7

\* an expiration that outlasts the week between two scheduled runs
cache_expiration_eight_days == schedule_interval + 1

\* cache_expiration=timedelta(days=6)
cache_expiration == 6

\* cache_policy=INPUTS: the key is computed from the arguments
\* (season, division_code)
CacheKeys == [season : {"2425"}, division_code : FeedDivisions]

NoEntry == [stored |-> FALSE, written |-> 0]
NoRun == [key |-> "-", at |-> 0, source |-> "none", written |-> 0, since |-> 0, before |-> NoEntry]

InitCache ==
    /\ clock = 0
    /\ cache = [k \in CacheKeys |-> NoEntry]
    /\ served = NoRun

\* Variable.get("min-model-accuracy", default="0.4") and
\* Variable.get("min-model-f1-macro", default="0.35"), in hundredths
min_accuracy == 40
min_f1_macro == 35

\* the metrics a trained model can have, in hundredths
Metrics == [accuracy : {30, 50}, f1_macro : {30, 40}]

NoMetrics == [accuracy |-> 0, f1_macro |-> 0]

NoTraining == [pc |-> "idle", run |-> 0, state |-> "none", metrics |-> NoMetrics,
               validation |-> "none", registration |-> "none", step |-> "none", regRun |-> 0]

\* no version is registered, no alias is set
NoRegistry == [versions |-> {}, production |-> NoMetrics, staging |-> NoMetrics]

InitTraining ==
    /\ training = NoTraining
    /\ registry = NoRegistry

NoBackfill == [pc |-> "idle", start_year |-> 0, end_year |-> 0,
               seasons |-> <<>>, i |-> 0, delay_seconds |-> 0,
               successful_runs |-> <<>>, failed_runs |-> <<>>, events |-> <<>>]

InitBackfill == backfill = NoBackfill

InitAux == InitCache /\ partial = {} /\ InitTraining /\ InitBackfill

Init == InitLoader /\ InitFlow /\ InitHelpers /\ InitAux

\* ingest_data(season, division) is called
FlowStart(s, dv) ==
    /\ flow.pc = "idle"
    /\ runs < MaxRuns
    /\ runs' = runs + 1
    /\ flow' = [NoFlow EXCEPT !.pc = "resolve", !.run = 1, !.state = "Running",
                              !.season = s, !.division = dv]
    /\ fetch' = NoFetch
    /\ denied' = FALSE
    /\ cleaned' = NoFrame
    /\ up' = NoTask
    /\ ld' = NoTask
    /\ UNCHANGED <<archive, loaderVars, call, auxVars>>

\* lines 299-306: division = _ensure_division(division), then
\* get_season_results is called
Resolve ==
    /\ flow.pc = "resolve"
    /\ LET d == ensure_division(flow.division) IN
        IF d.ok
        THEN /\ flow' = [flow EXCEPT !.pc = "fetch", !.code = d.value,
                                      !.division = [kind |-> "enum", val |-> d.value]]
             /\ fetch' = [NoFetch EXCEPT !.pc = "request", !.run = 1]
        ELSE /\ flow' = [flow EXCEPT !.pc = "raised"]
             /\ UNCHANGED fetch
    /\ UNCHANGED <<runs, denied, cleaned, archive, up, ld, loaderVars, call, auxVars>>

\* get_season_results, lines 147-152: the request fails, the status is an
\* error or the body is empty
RequestError(e) ==
    /\ flow.pc = "fetch"
    /\ fetch.pc = "request"
    /\ denied' = (denied \/ e \in {"http401", "http404"})
    /\ fetch' = [fetch EXCEPT !.pc = "attempt_failed", !.err = e]
    /\ UNCHANGED <<flow, runs, cleaned, archive, up, ld, loaderVars, call, auxVars>>

\* get_season_results, lines 147-155: the feed answers with a body, which is
\* parsed and handed to _clean_data; c is what _clean_data makes of it
RequestOk(c) ==
    /\ flow.pc = "fetch"
    /\ fetch.pc = "request"
    /\ fetch' = [fetch EXCEPT !.pc = "clean", !.outcome = c, !.cleanRun = 1]
    /\ UNCHANGED <<flow, runs, denied, cleaned, archive, up, ld, loaderVars, call, auxVars>>

\* _clean_data returns; get_season_results returns its result to the flow
CleanOk ==
    /\ flow.pc = "fetch"
    /\ fetch.pc = "clean"
    /\ fetch.outcome = "cleaned"
    /\ \E d \in CleanedFrames(flow.season, flow.code) : cleaned' = d
    /\ fetch' = [NoFetch EXCEPT !.pc = "completed", !.run = fetch.run]
    /\ flow' = [flow EXCEPT !.pc = "submit"]
    /\ UNCHANGED <<runs, denied, archive, up, ld, loaderVars, call, auxVars>>

\* _clean_data raises and its own retry (retries=1) runs it again on the
\* same input
CleanRetry ==
    /\ flow.pc = "fetch"
    /\ fetch.pc = "clean"
    /\ fetch.outcome \in CleanErrors
    /\ fetch.cleanRun <= CleanRetries
    /\ fetch' = [fetch EXCEPT !.cleanRun = @ + 1]
    /\ UNCHANGED <<flow, runs, denied, cleaned, archive, up, ld, loaderVars, call, auxVars>>

\* _clean_data raises for the last time: the attempt of get_season_results
\* fails with its error
CleanFail ==
    /\ flow.pc = "fetch"
    /\ fetch.pc = "clean"
    /\ fetch.outcome \in CleanErrors
    /\ fetch.cleanRun > CleanRetries
    /\ fetch' = [fetch EXCEPT !.pc = "attempt_failed", !.err = fetch.outcome]
    /\ UNCHANGED <<flow, runs, denied, cleaned, archive, up, ld, loaderVars, call, auxVars>>

\* the task engine retries the failed attempt: retries are left and
\* retry_condition_fn agrees
TaskRetry ==
    /\ flow.pc = "fetch"
    /\ fetch.pc = "attempt_failed"
    /\ fetch.run <= TaskRetries
    /\ retry_handler(fetch.err)
    /\ fetch' = [fetch EXCEPT !.pc = "request", !.run = @ + 1, !.outcome = "none", !.cleanRun = 0]
    /\ UNCHANGED <<flow, runs, denied, cleaned, archive, up, ld, loaderVars, call, auxVars>>

\* the task run fails; lines 308-310: the flow logs the error and re-raises
TaskFail ==
    /\ flow.pc = "fetch"
    /\ fetch.pc = "attempt_failed"
    /\ ~(fetch.run <= TaskRetries /\ retry_handler(fetch.err))
    /\ fetch' = [fetch EXCEPT !.pc = "failed"]
    /\ flow' = [flow EXCEPT !.pc = "raised"]
    /\ UNCHANGED <<runs, denied, cleaned, archive, up, ld, loaderVars, call, auxVars>>

\* the flow function raised and the flow has retries left: it is run again
FlowRetry ==
    /\ flow.pc = "raised"
    /\ flow.run <= FlowRetries
    /\ flow' = [flow EXCEPT !.pc = "resolve", !.run = @ + 1]
    /\ fetch' = NoFetch
    /\ UNCHANGED <<runs, denied, cleaned, archive, up, ld, loaderVars, call, auxVars>>

\* the flow function raised and no retry is left: the run is Failed
FlowFail ==
    /\ flow.pc = "raised"
    /\ flow.run > FlowRetries
    /\ flow' = [flow EXCEPT !.pc = "idle", !.state = "Failed"]
    /\ UNCHANGED <<fetch, runs, denied, cleaned, archive, up, ld, loaderVars, call, auxVars>>

\* lines 313-317: upload_to_s3.submit(file_name, df) and
\* load_data_to_db.submit(df)
Submit ==
    /\ flow.pc = "submit"
    /\ flow' = [flow EXCEPT !.pc = "join"]
    /\ up' = [state |-> "Running", run |-> 1]
    /\ ld' = [state |-> "Running", run |-> 1]
    /\ UNCHANGED <<fetch, runs, denied, cleaned, archive, loaderVars, call, auxVars>>

\* upload_to_s3, lines 156-184: the object is written
UploadOk ==
    /\ up.state = "Running"
    /\ LET out == upload_to_s3(file_name(flow.season, flow.code), cleaned, archive, "none")
       IN  /\ ~out.raised
           /\ archive' = out.store
    /\ up' = [up EXCEPT !.state = "Completed"]
    /\ UNCHANGED <<flow, fetch, runs, denied, cleaned, ld, loaderVars, call, auxVars>>

\* upload_to_s3 raises (empty DataFrame, bucket variable unset, S3 error)
\* and the task engine runs it again
UploadRetry ==
    /\ up.state = "Running"
    /\ \E f \in Faults :
          upload_to_s3(file_name(flow.season, flow.code), cleaned, archive, f).raised
    /\ up.run <= UploadRetries
    /\ up' = [up EXCEPT !.run = @ + 1]
    /\ UNCHANGED <<flow, fetch, runs, denied, cleaned, archive, ld, loaderVars, call, auxVars>>

\* a failing archive write that takes the rows of the season back out of
\* the table
UploadFailUndoesLoad ==
    /\ up.state = "Running"
    /\ \E f \in Faults :
          upload_to_s3(file_name(flow.season, flow.code), cleaned, archive, f).raised
    /\ up.run > UploadRetries
    /\ up' = [up EXCEPT !.state = "Failed"]
    /\ table' = DeleteSeasons(table, {flow.season})
    /\ UNCHANGED <<flow, fetch, runs, denied, cleaned, archive, ld, call, auxVars>>
    /\ UNCHANGED <<tableExists, pc, df, todo, seen, txn, result, log, pre, prev, called, variant>>

\* upload_to_s3 raises and no retry is left
UploadFail ==
    /\ up.state = "Running"
    /\ \E f \in Faults :
          upload_to_s3(file_name(flow.season, flow.code), cleaned, archive, f).raised
    /\ up.run > UploadRetries
    /\ up' = [up EXCEPT !.state = "Failed"]
    /\ UNCHANGED <<flow, fetch, runs, denied, cleaned, archive, ld, loaderVars, call, auxVars>>

\* a load that inserts without deleting
LoadedTableAppend(exists, t, d) == AppendRows(t, d.rows)

\* the table a load of DataFrame d leaves behind
LoadedTable(exists, t, d) ==
    IF exists
    THEN Committed(t, [NoTxn EXCEPT !.deleted = SeasonsOf(d), !.inserted = d.rows])
    ELSE d.rows

\* the submitted load_data_to_db runs to its end and returns
LoadOk ==
    /\ ld.state = "Running"
    /\ IF IsEmpty(cleaned)
       THEN UNCHANGED <<tableExists, table>>
       ELSE /\ tableExists' = TRUE
            /\ table' = LoadedTable(tableExists, table, cleaned)
    /\ ld' = [ld EXCEPT !.state = "Completed"]
    /\ UNCHANGED <<flow, fetch, runs, denied, cleaned, archive, up, call, auxVars>>
    /\ UNCHANGED <<pc, df, todo, seen, txn, result, log, pre, prev, called, variant>>

\* load_data_to_db raises (connection or database error, the transaction
\* is rolled back) and the task engine runs it again
LoadRetry ==
    /\ ld.state = "Running"
    /\ ~IsEmpty(cleaned)
    /\ ld.run <= LoadRetries
    /\ ld' = [ld EXCEPT !.run = @ + 1]
    /\ UNCHANGED <<flow, fetch, runs, denied, cleaned, archive, up, loaderVars, call, auxVars>>

\* load_data_to_db raises and no retry is left
LoadFail ==
    /\ ld.state = "Running"
    /\ ~IsEmpty(cleaned)
    /\ ld.run > LoadRetries
    /\ ld' = [ld EXCEPT !.state = "Failed"]
    /\ UNCHANGED <<flow, fetch, runs, denied, cleaned, archive, up, loaderVars, call, auxVars>>

Final == {"Completed", "Failed"}

\* the pairs with a half-done latest run, once the run in progress is over
PartialAfter ==
    LET key == [season |-> flow.season, division |-> flow.code]
    IN  IF (up.state = "Failed") # (ld.state = "Failed") THEN partial \cup {key}
        ELSE IF up.state = "Completed" /\ ld.state = "Completed" THEN partial \ {key}
        ELSE partial

\* a flow that goes on as soon as one of the two futures is done
JoinFirstDone ==
    /\ flow.pc = "join"
    /\ (up.state \in Final \/ ld.state \in Final)
    /\ flow' = [flow EXCEPT !.pc = "idle", !.state = "Completed"]
    /\ partial' = PartialAfter
    /\ UNCHANGED <<fetch, runs, denied, cleaned, archive, up, ld, loaderVars, call, cacheVars, trainVars, backfill>>

\* lines 319-321: wait([upload_s3_future, ingestion_future]) returns, the
\* flow logs its completion and returns None
Join ==
    /\ flow.pc = "join"
    /\ up.state \in Final
    /\ ld.state \in Final
    /\ flow' = [flow EXCEPT !.pc = "idle", !.state = "Completed"]
    /\ partial' = PartialAfter
    /\ UNCHANGED <<fetch, runs, denied, cleaned, archive, up, ld, loaderVars, call, cacheVars, trainVars, backfill>>

(***************************************************************************)
(* The delete statement of the loaders, as the database reads it.          *)
(***************************************************************************)

\* the characters of a season value and of a statement: a letter, the
\* single quote, the word OR, the word TRUE and the comment opener --
Alphabet == {"a", "'", "O", "T", "-"}

\* the season values of df["season"]: strings of 1 to MaxLabel characters
Labels == UNION {[1..n -> Alphabet] : n \in 1..MaxLabel}

\* the season values the rows of the table may carry
StoredLabels == {<<"a">>, <<"a", "a">>, <<"a", "'">>}

\* the statement handed to connection.execute: its text and its bound
\* parameters.  "W" stands for DELETE FROM english_league_data WHERE
\* season = and ":" for the placeholder :season.
\*   common, line 194: text("... WHERE season = :season"), {"season": season}
\*   aws, line 223:    the same, the table name formatted into the text
\*   local, line 173:  f"DELETE FROM {table_name} WHERE season = '{season}'"
delete_query(v, season) ==
    IF v = "local"
    THEN [text |-> <<"W", "'">> \o season \o <<"'">>, params |-> <<>>]
    ELSE [text |-> <<"W", ":">>, params |-> <<season>>]

\* the database reads a string literal whose opening quote it has consumed:
\* it ends at the first quote that is not doubled, a doubled quote stands
\* for one quote character
RECURSIVE ReadLiteral(_, _)
ReadLiteral(s, acc) ==
    IF s = <<>> THEN [ok |-> FALSE, value |-> acc, rest |-> <<>>]
    ELSE IF Head(s) = "'"
         THEN IF Len(s) >= 2 /\ s[2] = "'"
              THEN ReadLiteral(Tail(Tail(s)), Append(acc, "'"))
              ELSE [ok |-> TRUE, value |-> acc, rest |-> Tail(s)]
         ELSE ReadLiteral(Tail(s), Append(acc, Head(s)))

\* the database reads what follows the comparison: the end of the text or a
\* comment leaves the condition as it is, OR TRUE makes it hold for every
\* row, anything else is a syntax error
RECURSIVE ReadCondition(_, _)
ReadCondition(s, kind) ==
    IF s = <<>> \/ Head(s) = "-" THEN kind
    ELSE IF Head(s) = "O" /\ Len(s) >= 2 /\ s[2] = "T"
         THEN ReadCondition(Tail(Tail(s)), "all")
         ELSE "error"

\* connection.execute(statement) on a table whose rows carry the season
\* values t: whether it raises, and the season values whose rows it deletes
execute(stmt, t) ==
    IF stmt.text[2] = ":"
    THEN [raised |-> FALSE, deleted |-> {r \in t : r = stmt.params[1]}]
    ELSE LET lit == ReadLiteral(SubSeq(stmt.text, 3, Len(stmt.text)), <<>>)
             kind == IF lit.ok THEN ReadCondition(lit.rest, "equal") ELSE "error"
         IN  CASE kind = "error" -> [raised |-> TRUE, deleted |-> {}]
               [] kind = "all" -> [raised |-> FALSE, deleted |-> t]
               [] OTHER -> [raised |-> FALSE, deleted |-> {r \in t : r = lit.value}]

\* lines 193-198 of the loader of module v, for one season value, on a table
\* holding rows of the season values t
ExecuteDelete(v, season, t) ==
    /\ call' = [fn |-> "delete", variant |-> v, season |-> season, table |-> t,
                result |-> execute(delete_query(v, season), t)]
    /\ UNCHANGED <<loaderVars, flowVars, auxVars>>

(***************************************************************************)
(* _clean_data and the DataFrames it works on.                             *)
(***************************************************************************)

\* the cells of a DataFrame: a missing value, a string, a number, the text
\* of a date in some layout, a parsed date, the missing date
NaN == [t |-> "nan"]
NaT == [t |-> "nat"]
Str(s) == [t |-> "str", s |-> s]
Num(n) == [t |-> "num", n |-> n]
DateText(layout, y, m, d) == [t |-> "str", layout |-> layout, y |-> y, m |-> m, d |-> d]
Timestamp(y, m, d) == [t |-> "date", y |-> y, m |-> m, d |-> d]

\* pd.isna / what dropna looks at
isna(c) == c.t \in {"nan", "nat"}

\* helpers.py lines 11-17: the layouts tried in order
formats == <<"%d/%m/%Y", "%d/%m/%y", "%Y-%m-%d", "%d-%m-%Y", "%d-%m-%y">>

\* helpers.py line 30: the layout of the fallback
fallback_format == "%Y/%m/%d"

\* the year strptime reads: %y takes 00-68 for 2000-2068 and 69-99 for
\* 1969-1999, %Y takes the four digits
YearOf(c) ==
    IF c.layout \in {"%d/%m/%y", "%d-%m-%y"}
    THEN IF c.y <= 68 THEN 2000 + c.y ELSE 1900 + c.y
    ELSE c.y

\* the days of month m of year y
DaysIn(y, m) ==
    IF m = 2
    THEN IF (y % 4 = 0 /\ y % 100 # 0) \/ y % 400 = 0 THEN 29 ELSE 28
    ELSE IF m \in {4, 6, 9, 11} THEN 30 ELSE 31

\* a day of the calendar
ValidDate(y, m, d) == m \in 1..12 /\ d \in 1..DaysIn(y, m)

\* the years a pandas Timestamp can hold whole (1677-09-21 to 2262-04-11)
InBounds(y) == y \in 1678..2261

\* what a call returns or raises
Value(v) == [exc |-> "none", value |-> v]
Raise(e) == [exc |-> e, value |-> NaT]

\* pd.to_datetime(date_str, format=fmt, errors=errors) of a text: an empty
\* text and the text "NaT" are nulls and give NaT; a text of the layout that
\* names a day a Timestamp can hold gives it; anything else raises
\* ValueError (OutOfBoundsDatetime and ParserError are ValueErrors), or
\* gives NaT when errors="coerce"
to_datetime(c, fmt, errors) ==
    IF c.layout \in {"empty", "NaT"} THEN Value(NaT)
    ELSE IF c.layout = fmt /\ ValidDate(YearOf(c), c.m, c.d) /\ InBounds(YearOf(c))
    THEN Value(Timestamp(YearOf(c), c.m, c.d))
    ELSE IF errors = "coerce" THEN Value(NaT)
    ELSE Raise("ValueError")

\* parsed_date.replace(year=y)
replace_year(ts, y) ==
    IF ValidDate(y, ts.m, ts.d) /\ InBounds(y)
    THEN Value(Timestamp(y, ts.m, ts.d))
    ELSE Raise("ValueError")

\* a handler that lets ValueError through
caught_parser_error_only == {"ParserError"}

\* helpers.py lines 26 and 32: except (ParserError, ValueError)
caught == {"ParserError", "ValueError"}

\* helpers.py lines 29-33: the fallback
parse_fallback(c) ==
    LET r == to_datetime(c, fallback_format, "coerce")
    IN  IF r.exc \in caught THEN Value(NaT) ELSE r

\* helpers.py lines 19-27: the layouts tried from the i-th on, then the
\* fallback
RECURSIVE try_formats(_, _)
try_formats(c, i) ==
    IF i > Len(formats) THEN parse_fallback(c)
    ELSE LET r == to_datetime(c, formats[i], "raise")
             moved == IF r.exc = "none" /\ r.value # NaT /\ r.value.y < 1950
                      THEN replace_year(r.value, r.value.y + 100)
                      ELSE r
         IN  IF moved.exc = "none" THEN moved
             ELSE IF moved.exc \in caught THEN try_formats(c, i + 1)
             ELSE moved

\* parse_match_date(date_str), helpers.py lines 5-33, as a call that
\* returns or raises
parse_match_date_call(c) ==
    IF isna(c) THEN Value(NaT) ELSE try_formats(c, 1)

\* parse_match_date(date_str), helpers.py lines 5-33: a missing value and a
\* text no layout matches give NaT (an empty or blank text is read as NaT
\* by pd.to_datetime itself); a year below 1950 is moved up by 100
parse_match_date(c) == parse_match_date_call(c).value

\* the column names of the raw feed
RawColumns == {"Date", "HomeTeam", "AwayTeam", "Div", "FTHG", "Referee"}

\* line 96: columns.str.lower().str.replace(" ", "_")
snake_case(c) ==
    CASE c = "Date" -> "date"
      [] c = "HomeTeam" -> "hometeam"
      [] c = "AwayTeam" -> "awayteam"
      [] c = "Div" -> "div"
      [] c = "FTHG" -> "fthg"
      [] c = "Referee" -> "referee"
      [] OTHER -> c

\* str.strip() on the strings of the model
str_strip(s) == IF s \in {" ", "  "} THEN "" ELSE s

\* the values a raw row takes in each column
RawDates ==
    {DateText("%d/%m/%Y", 2024, 8, 15), DateText("%Y-%m-%d", 2024, 8, 15),
     DateText("%d/%m/%Y", 2024, 8, 16), DateText("garbage", 0, 0, 0), NaN}
HomeTeams == {Str("Arsenal"), Str(" ")}
AwayTeams == {Str("Brighton"), NaN}
Referees == {Str("Oliver"), Str("Taylor"), NaN}

RawRows ==
    {[Date |-> d, HomeTeam |-> h, AwayTeam |-> a, Div |-> Str("E0"),
      FTHG |-> Num(2), Referee |-> r] :
        d \in RawDates, h \in HomeTeams, a \in AwayTeams, r \in Referees}

\* a row that passes every check
ValidRow ==
    [Date |-> DateText("%d/%m/%Y", 2024, 8, 15), HomeTeam |-> Str("Arsenal"),
     AwayTeam |-> Str("Brighton"), Div |-> Str("E0"), FTHG |-> Num(2),
     Referee |-> Str("Oliver")]

\* the raw DataFrames handed to _clean_data: every sequence of up to
\* MaxRawRows rows with the columns of the feed, and one valid row, or no
\* row, with any subset of the columns
RawFrames ==
    {[columns |-> RawColumns, rows |-> s] :
        s \in UNION {[1..n -> RawRows] : n \in 0..MaxRawRows}}
    \cup {[columns |-> C, rows |-> <<[c \in C |-> ValidRow[c]]>>] : C \in SUBSET RawColumns}
    \cup {[columns |-> C, rows |-> <<>>] : C \in SUBSET RawColumns}

\* what get_required_columns() can return: nothing, the contract of the
\* feed, a contract in another order that names the referee
FeedContract == <<"date", "hometeam", "awayteam", "div", "fthg", "season">>
Contracts == {<<>>, FeedContract, <<"season", "referee", "fthg", "date">>}

\* the inputs of _clean_data: the season, the raw DataFrame and the
\* configured contract
CleanInputs ==
    {[season |-> "2425", df |-> d, required |-> FeedContract] :
        d \in {x \in RawFrames : x.columns = RawColumns}}
    \cup {[season |-> s, df |-> d, required |-> r] :
        s \in Seasons, d \in {x \in RawFrames : Len(x.rows) <= 1}, r \in Contracts}

\* the elements of a list
Range(s) == {s[i] : i \in 1..Len(s)}

\* the rows of a DataFrame, each with its position in the input
Indexed(rows) == [i \in 1..Len(rows) |-> [i |-> i, r |-> rows[i]]]

\* line 96: the rows under the standardised column names
Renamed(rows, columns) ==
    [i \in 1..Len(rows) |->
        [i |-> rows[i].i,
         r |-> [k \in {snake_case(c) : c \in columns} |->
                    rows[i].r[CHOOSE c \in columns : snake_case(c) = k]]]]

\* line 100: df_cleaned["date"].apply(parse_match_date)
DatesParsed(rows) ==
    [i \in 1..Len(rows) |->
        [rows[i] EXCEPT !.r = [@ EXCEPT !["date"] = parse_match_date(@)]]]

\* a dropna that looks at the date and the team names only
dropna_subset(rows) ==
    LET complete(x) == \A k \in DOMAIN x.r \cap {"date", "hometeam", "awayteam"} : ~isna(x.r[k])
    IN  SelectSeq(rows, complete)

\* line 102: dropna() keeps the rows without a missing value in any column
dropna(rows) ==
    LET complete(x) == \A k \in DOMAIN x.r : ~isna(x.r[k])
    IN  SelectSeq(rows, complete)

\* line 103: select_dtypes(include=["object"]).columns
object_columns(rows) ==
    {k \in UNION {DOMAIN rows[i].r : i \in 1..Len(rows)} :
        \E i \in 1..Len(rows) : rows[i].r[k].t = "str"}

\* lines 103-104: the rows none of whose strings is blank
NotBlank(rows) ==
    LET cols == object_columns(rows)
        filled(x) == \A k \in cols : str_strip(x.r[k].s) # ""
    IN  SelectSeq(rows, filled)

\* line 110: df_cleaned["season"] = season
Tagged(rows, season) ==
    [i \in 1..Len(rows) |->
        [i |-> rows[i].i,
         r |-> [k \in DOMAIN rows[i].r \cup {"season"} |->
                    IF k = "season" THEN Str(season) ELSE rows[i].r[k]]]]

\* line 112: the identity of a match
subset == {"date", "hometeam", "awayteam", "season", "div"}

\* a drop_duplicates that keeps the last row of each identity
RECURSIVE drop_duplicates_keep_last(_)
drop_duplicates_keep_last(rows) ==
    IF rows = <<>> THEN <<>>
    ELSE LET n == Len(rows)
             last == rows[n]
             differs(x) == \E k \in subset : x.r[k] # last.r[k]
         IN  Append(drop_duplicates_keep_last(SelectSeq(SubSeq(rows, 1, n - 1), differs)), last)

\* line 112: drop_duplicates(subset=...) keeps the first row of each
\* identity, in input order
RECURSIVE drop_duplicates(_)
drop_duplicates(rows) ==
    IF rows = <<>> THEN <<>>
    ELSE LET first == Head(rows)
             differs(x) == \E k \in subset : x.r[k] # first.r[k]
         IN  <<first>> \o drop_duplicates(SelectSeq(Tail(rows), differs))

\* line 129: df_cleaned[required_columns]
Projected(rows, required) ==
    [i \in 1..Len(rows) |->
        [i |-> rows[i].i, r |-> [k \in Range(required) |-> rows[i].r[k]]]]

\* an emptiness check that lets every input through
never_empty(raw) == FALSE

\* line 91: len(df) == 0
is_empty(raw) == Len(raw.rows) = 0

\* what a call of _clean_data ends with
Failure(error, missing, steps) ==
    [raised |-> error, missing |-> missing, steps |-> steps,
     kept |-> <<>>, rows |-> <<>>, columns |-> <<>>]

\* _clean_data(season, raw), lines 85-129, with required what
\* get_required_columns() returns.  steps lists what the call has done, kept
\* the positions of the rows that passed lines 100-104.
clean_data(season, raw, required) ==
    IF is_empty(raw)
    THEN Failure("empty_frame", {}, <<>>)
    ELSE
    LET names == {snake_case(c) : c \in raw.columns}
        renamed == Renamed(Indexed(raw.rows), raw.columns)
    IN
    IF "date" \notin names
    THEN Failure("KeyError", {"date"}, <<"standardise">>)
    ELSE
    LET valid == NotBlank(dropna(DatesParsed(renamed)))
        tagged == Tagged(valid, season)
        columns == names \cup {"season"}
    IN
    IF ~(subset \subseteq columns)
    THEN Failure("KeyError", subset \ columns, <<"standardise", "parse_date", "dropna", "strip", "season">>)
    ELSE
    LET unique == drop_duplicates(tagged)
        done == <<"standardise", "parse_date", "dropna", "strip", "season",
                  "drop_duplicates", "get_required_columns">>
        missing_columns == Range(required) \ columns
    IN
    IF required = <<>>
    THEN Failure("no_required_columns", {}, done)
    ELSE IF missing_columns # {}
    THEN Failure("missing_columns", missing_columns, done)
    ELSE [raised |-> "none", missing |-> {}, steps |-> Append(done, "project"),
          kept |-> [i \in 1..Len(valid) |-> valid[i].i],
          rows |-> Projected(unique, required), columns |-> required]

\* _clean_data is called
CleanData(x) ==
    /\ call' = [fn |-> "_clean_data", season |-> x.season, df |-> x.df,
                required |-> x.required,
                out |-> clean_data(x.season, x.df, x.required)]
    /\ UNCHANGED <<loaderVars, flowVars, auxVars>>

(***************************************************************************)
(* The archive writes, called on their own.                                *)
(***************************************************************************)

\* the store before the call: empty, or holding one object
StoresBefore ==
    {[k \in Keys |-> None]}
    \cup {[k \in Keys |-> IF k = j THEN [rows |-> b, stored |-> TRUE] ELSE None] :
            j \in Keys, b \in {x \in RowBags : NumRows(x) = 1}}

\* upload_to_s3(file_name, df) is called
UploadToS3(name, d, store, fault) ==
    /\ call' = [fn |-> "upload_to_s3", file_name |-> name, df |-> d, store |-> store,
                fault |-> fault, out |-> upload_to_s3(name, d, store, fault)]
    /\ UNCHANGED <<loaderVars, flowVars, auxVars>>

\* save_local(file_name, df) is called
SaveLocal(name, d, store, fault) ==
    /\ call' = [fn |-> "save_local", file_name |-> name, df |-> d, store |-> store,
                fault |-> fault, out |-> save_local(name, d, store, fault)]
    /\ UNCHANGED <<loaderVars, flowVars, auxVars>>

(***************************************************************************)
(* ensure_division and get_current_season, called on their own.            *)
(***************************************************************************)

\* the arguments ensure_division can be given: a string (a code of the
\* enumeration or not), a member of the enumeration, None, a value of
\* another type
DivisionArguments ==
    {[kind |-> "str", val |-> c] : c \in Division \cup {"XX", "e0", "E0 ", "", "PREMIER_LEAGUE"}}
    \cup {[kind |-> "enum", val |-> c] : c \in Division}
    \cup {[kind |-> "none", val |-> "-"]}
    \cup {[kind |-> k, val |-> "-"] : k \in {"int", "bytes", "list"}}

\* ensure_division(division) is called
EnsureDivision(dv) ==
    /\ call' = [fn |-> "ensure_division", division |-> dv, out |-> ensure_division(dv)]
    /\ UNCHANGED <<loaderVars, flowVars, auxVars>>

\* the years and the months datetime.now() is read in
Years == {1999, 2000, 2001, 2009, 2010, 2023, 2024, 2025, 2099, 2100}
Months == 1..12

Digit == <<"0", "1", "2", "3", "4", "5", "6", "7", "8", "9">>

\* str(n) of a natural number, as the sequence of its characters
RECURSIVE str(_)
str(n) == IF n < 10 THEN <<Digit[n + 1]>> ELSE str(n \div 10) \o <<Digit[(n % 10) + 1]>>

\* the last two digits as a number, printed without padding
last_two_unpadded(t) == str(((IF Len(t) > 1 THEN (CHOOSE i \in 0..9 : Digit[i + 1] = t[Len(t) - 1]) ELSE 0) * 10)
                            + (CHOOSE i \in 0..9 : Digit[i + 1] = t[Len(t)]))

\* s[-2:]
last_two(t) == SubSeq(t, IF Len(t) > 2 THEN Len(t) - 1 ELSE 1, Len(t))

\* get_current_season(), lines 58-82, for datetime.now() in month m of year y
get_current_season(y, m) ==
    LET season_start_year == IF m >= 8 THEN y ELSE y - 1
        season_end_year == IF m >= 8 THEN y + 1 ELSE y
    IN  [start |-> season_start_year,
         season |-> last_two(str(season_start_year)) \o last_two(str(season_end_year))]

\* get_current_season() is called
GetCurrentSeason(y, m) ==
    /\ call' = [fn |-> "get_current_season", year |-> y, month |-> m,
                out |-> get_current_season(y, m)]
    /\ UNCHANGED <<loaderVars, flowVars, auxVars>>

(***************************************************************************)
(* parse_match_date, called on its own.                                    *)
(***************************************************************************)

\* the texts of the feed's date column: days written in a layout with a
\* four-digit or a two-digit year (days of the calendar or not, years a
\* Timestamp can hold or not), the empty text, a blank text, the text
\* "NaT", garbage; and the missing value
DateStrings ==
    {DateText(l, y, m, d) :
        l \in {"%d/%m/%Y", "%Y-%m-%d", "%d-%m-%Y", "%Y/%m/%d"},
        y \in {1, 1600, 1904, 1949, 1950, 2024, 2300}, m \in {2, 8, 13}, d \in {15, 29, 31}}
    \cup {DateText(l, y, m, d) :
        l \in {"%d/%m/%y", "%d-%m-%y"},
        y \in {0, 5, 68, 69, 99}, m \in {2, 8, 13}, d \in {15, 29, 31}}
    \cup {DateText(l, 0, 0, 0) : l \in {"empty", "blank", "NaT", "garbage"}}
    \cup {NaN, NaT}

\* parse_match_date(date_str) is called
ParseMatchDate(c) ==
    /\ call' = [fn |-> "parse_match_date", date_str |-> c, out |-> parse_match_date_call(c)]
    /\ UNCHANGED <<loaderVars, flowVars, auxVars>>

(***************************************************************************)
(* The result cache of get_season_results: persist_result=True,            *)
(* cache_policy=INPUTS, cache_expiration=timedelta(days=6).                *)
(***************************************************************************)

\* an entry can be served on day t: it was stored and has not expired
Servable(e, t) == e.stored /\ t <= e.written + cache_expiration

\* the days since the task run before this one for the key (-1: none)
Since(k) == IF served.source # "none" /\ served.key = k THEN clock - served.at ELSE -1

\* a day passes
Tick ==
    /\ clock < MaxDay
    /\ clock' = clock + 1
    /\ UNCHANGED <<cache, served, loaderVars, flowVars, call, partial, trainVars, backfill>>

\* get_season_results(season, division_code) finds a servable entry under
\* its key: the function body is not run
CacheHit(k) ==
    /\ Servable(cache[k], clock)
    /\ served' = [key |-> k, at |-> clock, source |-> "cache", written |-> cache[k].written,
                since |-> Since(k), before |-> cache[k]]
    /\ UNCHANGED <<clock, cache, loaderVars, flowVars, call, partial, trainVars, backfill>>

\* no servable entry: the body runs, the feed answers, the cleaned result
\* is persisted under the key
FetchAndStore(k) ==
    /\ ~Servable(cache[k], clock)
    /\ cache' = [cache EXCEPT ![k] = [stored |-> TRUE, written |-> clock]]
    /\ served' = [key |-> k, at |-> clock, source |-> "feed", written |-> clock,
                since |-> Since(k), before |-> cache[k]]
    /\ UNCHANGED <<clock, loaderVars, flowVars, call, partial, trainVars, backfill>>

\* no servable entry: the body runs and raises (the request or the cleaning
\* fails); the task run ends Failed and nothing is persisted
FetchFailure(k) ==
    /\ ~Servable(cache[k], clock)
    /\ served' = [key |-> k, at |-> clock, source |-> "failed", written |-> 0,
                since |-> Since(k), before |-> cache[k]]
    /\ UNCHANGED <<clock, cache, loaderVars, flowVars, call, partial, trainVars, backfill>>

(***************************************************************************)
(* epl_training_pipeline, training_pipeline.py lines 355-412.              *)
(***************************************************************************)

\* @flow(retries=2), register_model @task(retries=3)
TrainingRetries == 2
RegisterRetries == 3

\* validate_model_performance, lines 344-351: neither metric is below its
\* threshold
Passes(m) == ~(m.accuracy < min_accuracy) /\ ~(m.f1_macro < min_f1_macro)

otherVars == <<loaderVars, flowVars, call, cacheVars, partial, backfill>>

\* epl_training_pipeline() is called; lines 368-377: the data is loaded,
\* the features are prepared and split
TrainingStart ==
    /\ training.pc = "idle"
    /\ training.state = "none"
    /\ training' = [NoTraining EXCEPT !.pc = "train", !.run = 1, !.state = "Running"]
    /\ UNCHANGED <<registry, otherVars>>

\* train_catboost_model, lines 167-272: the model is trained and evaluated;
\* line 263 logs it with registered_model_name, which registers a version
TrainModel(m) ==
    /\ training.pc = "train"
    /\ training' = [training EXCEPT !.pc = "submit", !.metrics = m]
    /\ registry' = [registry EXCEPT !.versions = @ \cup {[metrics |-> m, by |-> "log_model"]}]
    /\ UNCHANGED otherVars

\* a step before validation raises (data, features, training)
TrainRaise ==
    /\ training.pc = "train"
    /\ training' = [training EXCEPT !.pc = "raised"]
    /\ UNCHANGED <<registry, otherVars>>

\* lines 385-388: validate_model_performance.submit(metrics) and
\* register_model.submit(run_id)
SubmitBoth ==
    /\ training.pc = "submit"
    /\ training' = [training EXCEPT !.pc = "wait", !.validation = "Running",
                                    !.registration = "Running", !.step = "create", !.regRun = 1]
    /\ UNCHANGED <<registry, otherVars>>

\* validate_model_performance returns True
ValidatePass ==
    /\ training.validation = "Running"
    /\ Passes(training.metrics)
    /\ training' = [training EXCEPT !.validation = "Completed"]
    /\ UNCHANGED <<registry, otherVars>>

\* validate_model_performance raises ValueError (the task has no retries)
ValidateRaise ==
    /\ training.validation = "Running"
    /\ ~Passes(training.metrics)
    /\ training' = [training EXCEPT !.validation = "Failed"]
    /\ UNCHANGED <<registry, otherVars>>

\* register_model, lines 302-313: client.create_model_version
CreateVersion ==
    /\ training.registration = "Running"
    /\ training.step = "create"
    /\ registry' = [registry EXCEPT
                      !.versions = @ \cup {[metrics |-> training.metrics, by |-> "register_model"]}]
    /\ training' = [training EXCEPT !.step = "production"]
    /\ UNCHANGED otherVars

\* line 316: set_registered_model_alias(model_name, "production", version)
SetProduction ==
    /\ training.registration = "Running"
    /\ training.step = "production"
    /\ registry' = [registry EXCEPT !.production = training.metrics]
    /\ training' = [training EXCEPT !.step = "staging"]
    /\ UNCHANGED otherVars

\* line 319: set_registered_model_alias(model_name, "staging", version);
\* the task returns the version
SetStaging ==
    /\ training.registration = "Running"
    /\ training.step = "staging"
    /\ registry' = [registry EXCEPT !.staging = training.metrics]
    /\ training' = [training EXCEPT !.step = "none", !.registration = "Completed"]
    /\ UNCHANGED otherVars

\* a call of the registry client raises; lines 326-328 re-raise and the
\* task engine runs register_model again
RegisterRetry ==
    /\ training.registration = "Running"
    /\ training.regRun <= RegisterRetries
    /\ training' = [training EXCEPT !.step = "create", !.regRun = @ + 1]
    /\ UNCHANGED <<registry, otherVars>>

\* a call of the registry client raises and no retry is left
RegisterFail ==
    /\ training.registration = "Running"
    /\ training.regRun > RegisterRetries
    /\ training' = [training EXCEPT !.step = "none", !.registration = "Failed"]
    /\ UNCHANGED <<registry, otherVars>>

\* lines 391-404: wait returns, both results are read, the flow returns
ResultsOk ==
    /\ training.pc = "wait"
    /\ training.validation = "Completed"
    /\ training.registration = "Completed"
    /\ training' = [training EXCEPT !.pc = "idle", !.state = "Completed"]
    /\ UNCHANGED <<registry, otherVars>>

\* lines 391-394 and 408-410: wait returns and a result() raises the error
\* of its task; the flow logs it and re-raises
ResultsRaise ==
    /\ training.pc = "wait"
    /\ training.validation \in Final
    /\ training.registration \in Final
    /\ (training.validation = "Failed" \/ training.registration = "Failed")
    /\ training' = [training EXCEPT !.pc = "raised"]
    /\ UNCHANGED <<registry, otherVars>>

\* the flow raised and has retries left: it is run again from the start
TrainingRetry ==
    /\ training.pc = "raised"
    /\ training.run <= TrainingRetries
    /\ training' = [NoTraining EXCEPT !.pc = "train", !.run = training.run + 1, !.state = "Running"]
    /\ UNCHANGED <<registry, otherVars>>

\* the flow raised and no retry is left
TrainingFail ==
    /\ training.pc = "raised"
    /\ training.run > TrainingRetries
    /\ training' = [training EXCEPT !.pc = "idle", !.state = "Failed"]
    /\ UNCHANGED <<registry, otherVars>>

(***************************************************************************)
(* run_backfill_deployments, data_ingestion_backfills.py lines 16-76.      *)
(***************************************************************************)

\* the years a backfill can be asked to start and to end with
BackfillYears == 1998..(1998 + MaxSeasons - 1)

\* the values of delay_seconds: the default and the one of the command line
Delays == {5, 10}

\* generate_seasons(start_year, end_year), lines 6-13: one label per year of
\* range(start_year, end_year + 1)
generate_seasons(start_year, end_year) ==
    [j \in 1..(IF end_year >= start_year THEN end_year - start_year + 1 ELSE 0) |->
        last_two(str(start_year + j - 1)) \o last_two(str(start_year + j))]

nonBackfillVars == <<loaderVars, flowVars, call, cacheVars, partial, trainVars>>

RunEvent(season) == [e |-> "run", season |-> season, seconds |-> 0]
SleepEvent(seconds) == [e |-> "sleep", season |-> <<>>, seconds |-> seconds]

\* the season of the iteration
Season == backfill.seasons[backfill.i]

\* run_backfill_deployments is called; lines 23-29: the seasons are
\* generated and the first and the last are printed, which raises
\* IndexError when there is none
BackfillStart(start_year, end_year, delay) ==
    /\ backfill.pc = "idle"
    /\ LET seasons == generate_seasons(start_year, end_year)
       IN  backfill' = [NoBackfill EXCEPT
                          !.start_year = start_year,
                          !.end_year = end_year,
                          !.seasons = seasons,
                          !.delay_seconds = delay,
                          !.i = IF Len(seasons) = 0 THEN 0 ELSE 1,
                          !.pc = IF Len(seasons) = 0 THEN "raised" ELSE "run"]
    /\ UNCHANGED nonBackfillVars

\* lines 36-49: run_deployment returns a flow run in a Completed state
RunCompleted ==
    /\ backfill.pc = "run"
    /\ backfill' = [backfill EXCEPT !.events = Append(@, RunEvent(Season)),
                                    !.successful_runs = Append(@, Season),
                                    !.pc = "delay"]
    /\ UNCHANGED nonBackfillVars

\* lines 36-45: run_deployment returns a flow run that is not Completed
\* (failed, crashed, or still running after the timeout of 300 s); the
\* season is noted as failed and the loop continues with the next one
RunNotCompleted ==
    /\ backfill.pc = "run"
    /\ backfill' = [backfill EXCEPT !.events = Append(@, RunEvent(Season)),
                                    !.failed_runs = Append(@, Season),
                                    !.pc = "next"]
    /\ UNCHANGED nonBackfillVars

\* a handler that lets the error of a run end the backfill
RunRaisedAborts ==
    /\ backfill.pc = "run"
    /\ backfill' = [backfill EXCEPT !.events = Append(@, RunEvent(Season)),
                                    !.pc = "raised"]
    /\ UNCHANGED nonBackfillVars

\* lines 36-40 and 51-54: run_deployment raises; the season is noted as
\* failed
RunRaised ==
    /\ backfill.pc = "run"
    /\ backfill' = [backfill EXCEPT !.events = Append(@, RunEvent(Season)),
                                    !.failed_runs = Append(@, Season),
                                    !.pc = "delay"]
    /\ UNCHANGED nonBackfillVars

\* lines 57-59: another season follows, time.sleep(delay_seconds)
Sleep ==
    /\ backfill.pc = "delay"
    /\ backfill.i < Len(backfill.seasons)
    /\ backfill' = [backfill EXCEPT !.events = Append(@, SleepEvent(backfill.delay_seconds)),
                                    !.pc = "next"]
    /\ UNCHANGED nonBackfillVars

\* line 57: it was the last season, no sleep
NoSleep ==
    /\ backfill.pc = "delay"
    /\ backfill.i = Len(backfill.seasons)
    /\ backfill' = [backfill EXCEPT !.pc = "next"]
    /\ UNCHANGED nonBackfillVars

\* line 31: the loop takes the next season
Advance ==
    /\ backfill.pc = "next"
    /\ backfill.i < Len(backfill.seasons)
    /\ backfill' = [backfill EXCEPT !.i = @ + 1, !.pc = "run"]
    /\ UNCHANGED nonBackfillVars

\* lines 61-76: the loop is over, the summary is printed and the two lists
\* are returned
Return ==
    /\ backfill.pc = "next"
    /\ backfill.i = Len(backfill.seasons)
    /\ backfill' = [backfill EXCEPT !.pc = "returned"]
    /\ UNCHANGED nonBackfillVars

(***************************************************************************)
(* Specifications.                                                         *)
(***************************************************************************)

\* one caller: loads run one after the other
Next ==
    \/ \E d \in DataFrames : Call(1, d)
    \/ Validate(1)
    \/ Connect(1)
    \/ ConnectFail(1)
    \/ Inspect(1)
    \/ Begin(1)
    \/ BeginFail(1)
    \/ DeleteSeason(1)
    \/ DeleteFail(1)
    \/ Insert(1)
    \/ InsertFail(1)
    \/ Commit(1)
    \/ CommitFail(1)
    \/ Rollback(1)
    \/ Create(1)
    \/ CreateFail(1)
    \/ FirstInsert(1)
    \/ FirstInsertFail(1)

Spec == Init /\ [][Next]_vars

\* two callers, one load each, on a table that may hold rows already
InitConc ==
    /\ tableExists \in BOOLEAN
    /\ table \in {b \in RowBags : tableExists \/ b = EmptyBag}
    /\ InitCalls
    /\ InitFlow
    /\ InitHelpers
    /\ InitAux

NextConc ==
    \/ \E p \in Loaders, d \in DataFrames : ~called[p] /\ Call(p, d)
    \/ \E p \in Loaders : Validate(p)
    \/ \E p \in Loaders : Connect(p)
    \/ \E p \in Loaders : ConnectFail(p)
    \/ \E p \in Loaders : Inspect(p)
    \/ \E p \in Loaders : Begin(p)
    \/ \E p \in Loaders : BeginFail(p)
    \/ \E p \in Loaders : DeleteSeason(p)
    \/ \E p \in Loaders : DeleteFail(p)
    \/ \E p \in Loaders : Insert(p)
    \/ \E p \in Loaders : InsertFail(p)
    \/ \E p \in Loaders : Commit(p)
    \/ \E p \in Loaders : CommitFail(p)
    \/ \E p \in Loaders : Rollback(p)
    \/ \E p \in Loaders : Create(p)
    \/ \E p \in Loaders : CreateFail(p)
    \/ \E p \in Loaders : FirstInsert(p)
    \/ \E p \in Loaders : FirstInsertFail(p)

SpecConc == InitConc /\ [][NextConc]_vars

\* ingestion runs, one after the other
NextFlow ==
    \/ \E s \in Seasons, dv \in DivisionInputs : FlowStart(s, dv)
    \/ Resolve
    \/ \E e \in RequestErrors : RequestError(e)
    \/ \E c \in CleanErrors \cup {"cleaned"} : RequestOk(c)
    \/ CleanOk
    \/ CleanRetry
    \/ CleanFail
    \/ TaskRetry
    \/ TaskFail
    \/ FlowRetry
    \/ FlowFail
    \/ Submit
    \/ UploadOk
    \/ UploadRetry
    \/ UploadFail
    \/ LoadOk
    \/ LoadRetry
    \/ LoadFail
    \/ Join

SpecFlow == Init /\ [][NextFlow]_vars

\* one caller of the three loaders
NextVariants ==
    \/ \E d \in DataFrames, v \in Variants : CallOf(1, d, v)
    \/ Lookup(1)
    \/ LookupFail(1)
    \/ Validate(1)
    \/ Connect(1)
    \/ ConnectFail(1)
    \/ Inspect(1)
    \/ Begin(1)
    \/ BeginFail(1)
    \/ DeleteSeason(1)
    \/ DeleteFail(1)
    \/ Insert(1)
    \/ InsertFail(1)
    \/ Commit(1)
    \/ CommitFail(1)
    \/ Rollback(1)
    \/ Create(1)
    \/ CreateFail(1)
    \/ FirstInsert(1)
    \/ FirstInsertFail(1)

SpecVariants == Init /\ [][NextVariants]_vars

\* one delete statement is executed: each loader, season value and table
NextDelete ==
    /\ call = NoCall
    /\ \E v \in Variants, season \in Labels, t \in SUBSET StoredLabels :
          ExecuteDelete(v, season, t)

SpecDelete == Init /\ [][NextDelete]_vars

\* one call of _clean_data
NextClean ==
    /\ call = NoCall
    /\ \E x \in CleanInputs : CleanData(x)

SpecClean == Init /\ [][NextClean]_vars

\* one archive write
NextArchive ==
    /\ call = NoCall
    /\ \E s \in Seasons, c \in FeedDivisions, d \in DataFrames,
          store \in StoresBefore, fault \in Faults :
            \/ UploadToS3(file_name(s, c), d, store, fault)
            \/ SaveLocal(file_name(s, c), d, store, fault)

SpecArchive == Init /\ [][NextArchive]_vars

\* one call of a helper of the flow
NextHelpers ==
    /\ call = NoCall
    /\ \/ \E dv \in DivisionArguments : EnsureDivision(dv)
       \/ \E y \in Years, m \in Months : GetCurrentSeason(y, m)

SpecHelpers == Init /\ [][NextHelpers]_vars

\* one call of parse_match_date
NextDates ==
    /\ call = NoCall
    /\ \E c \in DateStrings : ParseMatchDate(c)

SpecDates == Init /\ [][NextDates]_vars

\* task runs of get_season_results over the days
NextCache ==
    \/ Tick
    \/ \E k \in CacheKeys : CacheHit(k)
    \/ \E k \in CacheKeys : FetchAndStore(k)
    \/ \E k \in CacheKeys : FetchFailure(k)

SpecCache == Init /\ [][NextCache]_vars

\* one run of the training pipeline
NextTraining ==
    \/ TrainingStart
    \/ \E m \in Metrics : TrainModel(m)
    \/ TrainRaise
    \/ SubmitBoth
    \/ ValidatePass
    \/ ValidateRaise
    \/ CreateVersion
    \/ SetProduction
    \/ SetStaging
    \/ RegisterRetry
    \/ RegisterFail
    \/ ResultsOk
    \/ ResultsRaise
    \/ TrainingRetry
    \/ TrainingFail

SpecTraining == Init /\ [][NextTraining]_vars

\* one backfill
NextBackfill ==
    \/ \E start_year \in BackfillYears, end_year \in BackfillYears, delay \in Delays :
          BackfillStart(start_year, end_year, delay)
    \/ RunCompleted
    \/ RunNotCompleted
    \/ RunRaised
    \/ Sleep
    \/ NoSleep
    \/ Advance
    \/ Return

SpecBackfill == Init /\ [][NextBackfill]_vars

\* the backfill keeps running: run_deployment comes back (it is given a
\* timeout) and time.sleep returns
SpecBackfillLive == Init /\ [][NextBackfill]_vars /\ WF_vars(NextBackfill)

(***************************************************************************)
(* Properties of the loader (Spec: one caller).                            *)
(***************************************************************************)

\* the seasons a DataFrame carries rows for
InputSeasons(p) == {r.season : r \in {x \in Rows : df[p].rows[x] > 0}}

Returned(p) == pc[p] = "idle" /\ result[p] = "ok"
Raised(p) == pc[p] = "idle" /\ result[p] = "raised"

\* C1: after a successful load_data_to_db call the table holds, for every
\* season of the input, exactly the rows of the input (with their
\* multiplicity) and none of the rows it held for that season before,
\* whether the call found the table or created it.
C1_LoadReplacesSeasons ==
    (Returned(1) /\ ~IsEmpty(df[1])) =>
        /\ tableExists
        /\ \A r \in Rows : r.season \in InputSeasons(1) => table[r] = df[1].rows[r]

\* a load has returned on a table that held a row of one of its seasons
\* which the input does not contain
C1_Witness ==
    /\ Returned(1)
    /\ pre[1].exists
    /\ \E r \in Rows :
          r.season \in InputSeasons(1) /\ pre[1].rows[r] > 0 /\ df[1].rows[r] = 0

\* C2: when a delete, the insert or the commit of a load fails, the call
\* raises, no transaction is left open and the table is what it was when the
\* call started, for every season of the input, on the path of the existing
\* table and on the path of the first load; until a call commits, the
\* committed table is the one the call started with.
C2_FailureLeavesTable ==
    /\ Raised(1) =>
          /\ tableExists = pre[1].exists
          /\ table = pre[1].rows
          /\ txn[1] = NoTxn
    /\ pc[1] # "idle" =>
          /\ tableExists = pre[1].exists
          /\ table = pre[1].rows

\* a load of two seasons has raised at its insert, after both deletes, on a
\* table that held rows
C2_Witness ==
    /\ Raised(1)
    /\ Cardinality(InputSeasons(1)) = 2
    /\ pre[1].exists
    /\ \A s \in Seasons : \E r \in Rows : r.season = s /\ pre[1].rows[r] > 0
    /\ log[1] = <<"create_engine", "connect", "inspect", "begin",
                  "delete", "delete", "insert", "rollback">>

\* C3: a load leaves every row of a season that is not in its input as it
\* was; after a successful load of season A and then a successful load of
\* other seasons, the rows of season A are those of the first load.
C3_OtherSeasonsUntouched ==
    /\ (pc[1] = "idle" /\ result[1] # "none") =>
          \A r \in Rows :
              (IsEmpty(df[1]) \/ ~df[1].hasSeason \/ r.season \notin InputSeasons(1))
                  => table[r] = pre[1].rows[r]
    /\ (Returned(1) /\ prev[1].result = "ok"
            /\ ~IsEmpty(df[1]) /\ ~IsEmpty(prev[1].df)
            /\ InputSeasons(1) \cap SeasonsOf(prev[1].df) = {}) =>
          \A r \in Rows :
              r.season \in SeasonsOf(prev[1].df) => table[r] = prev[1].df.rows[r]

\* a load of season B has returned after a load of season A
C3_Witness ==
    /\ Returned(1)
    /\ prev[1].result = "ok"
    /\ ~IsEmpty(df[1])
    /\ ~IsEmpty(prev[1].df)
    /\ InputSeasons(1) \cap SeasonsOf(prev[1].df) = {}
    /\ log[1][Len(log[1])] = "commit"

\* C4: loading the record set that the previous successful load loaded
\* leaves the table as that load left it.
C4_LoadIdempotent ==
    (Returned(1) /\ prev[1].result = "ok" /\ prev[1].df = df[1]) =>
        /\ tableExists = pre[1].exists
        /\ table = pre[1].rows

\* the same non-empty record set has been loaded twice in a row
C4_Witness ==
    /\ Returned(1)
    /\ prev[1].result = "ok"
    /\ prev[1].df = df[1]
    /\ ~IsEmpty(df[1])
    /\ log[1] # <<>>
    /\ log[1][Len(log[1])] = "commit"

\* C10: a load of an empty record set returns without creating an engine,
\* connecting, inspecting or changing the table, with or without a season
\* column.
C10_EmptyLoadIsNoOp ==
    (pc[1] = "idle" /\ called[1] /\ IsEmpty(df[1])) =>
        /\ result[1] = "ok"
        /\ log[1] = <<>>
        /\ tableExists = pre[1].exists
        /\ table = pre[1].rows

\* an empty record set without a season column has been loaded
C10_Witness ==
    /\ Returned(1)
    /\ called[1]
    /\ IsEmpty(df[1])
    /\ ~df[1].hasSeason

(***************************************************************************)
(* Properties of concurrent loads (SpecConc: two callers).                 *)
(***************************************************************************)

\* C9: when two loads of disjoint seasons have both returned, the table
\* holds the rows of both inputs.
C9_ConcurrentLoadsKeepBoth ==
    (/\ \A p \in Loaders : Returned(p) /\ ~IsEmpty(df[p])
     /\ InputSeasons(1) \cap InputSeasons(2) = {}) =>
        \A p \in Loaders : \A r \in Rows :
            r.season \in InputSeasons(p) => table[r] = df[p].rows[r]

(***************************************************************************)
(* Properties of the fetch and of the ingestion run (SpecFlow).            *)
(***************************************************************************)

\* C5: the ingestion run is reported Completed only when both the archive
\* write and the load completed, and Failed when either of them failed.
C5_RunFailsIfEitherFails ==
    /\ flow.state = "Completed" => (up.state = "Completed" /\ ld.state = "Completed")
    /\ (flow.state \in Final /\ (up.state = "Failed" \/ ld.state = "Failed"))
          => flow.state = "Failed"

\* C6: once the feed has answered 401 or 404 in an ingestion run, the run
\* issues no further request.
C6_NoRequestAfterDenial == ~(denied /\ fetch.pc = "request")

TransientErrors == ConnectionErrors \cup {"read_timeout"}

\* C7: get_season_results makes at most 4 attempts, and gives up on a
\* timeout or a connection failure only when its 3 retries are used up.
C7_TransientRetried ==
    /\ fetch.run <= TaskRetries + 1
    /\ (fetch.pc = "failed" /\ fetch.err \in TransientErrors) => fetch.run = TaskRetries + 1

DataErrors == CleanErrors \cup {"empty_body"}

C11_NoIOBeforeSeasonError ==
    (pc[1] = "idle" /\ called[1] /\ ~IsEmpty(df[1]) /\ ~df[1].hasSeason) =>
        /\ result[1] = "raised"
        /\ log[1] = <<>>
        /\ tableExists = pre[1].exists
        /\ table = pre[1].rows

(***************************************************************************)
(* Properties of the delete statement (SpecDelete).                        *)
(***************************************************************************)

\* C12: for every season value, quotes and SQL words included, the delete
\* of every loader succeeds and removes exactly the rows whose season
\* equals that value.
C12_DeleteMatchesSeasonOnly ==
    call.fn = "delete" =>
        /\ ~call.result.raised
        /\ call.result.deleted = {r \in call.table : r = call.season}

(***************************************************************************)
(* Properties of _clean_data (SpecClean).                                  *)
(***************************************************************************)

Cleaned == call.fn = "_clean_data"
CleanReturned == Cleaned /\ call.out.raised = "none"

\* the identity tuple (date, hometeam, awayteam, season, div) of the raw row
\* at position i of the input
IdentityOf(i) ==
    LET r == call.df.rows[i]
    IN  <<parse_match_date(r["Date"]), r["HomeTeam"], r["AwayTeam"],
          Str(call.season), r["Div"]>>

\* the raw row at position i has a parseable date, no missing value in any
\* column and no blank string
RowIsValid(i) ==
    LET r == call.df.rows[i]
    IN  /\ parse_match_date(r["Date"]) # NaT
        /\ \A c \in call.df.columns : r[c] # NaN
        /\ \A c \in call.df.columns \ {"Date"} :
              r[c].t = "str" => r[c].s \notin {"", " ", "  "}

KeptRows == {call.out.kept[j] : j \in 1..Len(call.out.kept)}
OutputRows == {call.out.rows[j].i : j \in 1..Len(call.out.rows)}

\* C13: the output of _clean_data has at most one row per identity tuple,
\* exactly one for every tuple of a row that passed validation, and the row
\* kept is the first row of that tuple that passed, in input order.
C13_DedupKeepsFirst ==
    CleanReturned =>
        /\ \A a, b \in 1..Len(call.out.rows) :
              a < b => /\ call.out.rows[a].i < call.out.rows[b].i
                       /\ IdentityOf(call.out.rows[a].i) # IdentityOf(call.out.rows[b].i)
        /\ OutputRows \subseteq KeptRows
        /\ \A i \in KeptRows :
              \E o \in OutputRows :
                  /\ IdentityOf(o) = IdentityOf(i)
                  /\ o <= i
                  /\ \A j \in KeptRows : IdentityOf(j) = IdentityOf(i) => o <= j

\* two rows of one match, written in two date layouts and with different
\* referees, both passed validation and the first one was returned
C13_Witness ==
    /\ CleanReturned
    /\ KeptRows = {1, 2}
    /\ OutputRows = {1}
    /\ call.df.rows[1]["Date"] # call.df.rows[2]["Date"]
    /\ call.df.rows[1]["Referee"] # call.df.rows[2]["Referee"]

\* C14: a raw row passes validation exactly when its date parses, none of
\* its columns is missing (whether or not the column is in the contract)
\* and none of its strings is blank; every row returned has a parsed date,
\* non-blank team names and the given season.
C14_OnlyValidRowsKept ==
    CleanReturned =>
        /\ \A i \in 1..Len(call.df.rows) : (i \in KeptRows) <=> RowIsValid(i)
        /\ \A j \in 1..Len(call.out.rows) :
              LET r == call.out.rows[j].r
              IN  /\ "date" \in DOMAIN r => r["date"].t = "date"
                  /\ "hometeam" \in DOMAIN r => str_strip(r["hometeam"].s) # ""
                  /\ "awayteam" \in DOMAIN r => str_strip(r["awayteam"].s) # ""
                  /\ "season" \in DOMAIN r => r["season"] = Str(call.season)

\* a row whose only defect is a missing referee, a column outside the
\* contract, was dropped and the other row was returned
C14_Witness ==
    /\ CleanReturned
    /\ Len(call.df.rows) = 2
    /\ call.required = FeedContract
    /\ call.df.rows[1] = [ValidRow EXCEPT !["Referee"] = NaN]
    /\ KeptRows = {2}
    /\ OutputRows = {2}

\* the columns of the DataFrame when the contract is checked
ColumnsAfterCleaning == {snake_case(c) : c \in call.df.columns} \cup {"season"}

\* C15: _clean_data returns only if the contract is non-empty and all its
\* columns are present, and then returns exactly the contract's columns in
\* the contract's order; an empty contract fails with the configuration
\* error; otherwise missing columns fail with the error that names exactly
\* the missing set.
C15_ContractEnforced ==
    (Cleaned /\ Len(call.df.rows) > 0) =>
        /\ call.out.raised = "none" =>
              /\ call.required # <<>>
              /\ Range(call.required) \subseteq ColumnsAfterCleaning
              /\ call.out.columns = call.required
              /\ \A j \in 1..Len(call.out.rows) :
                    DOMAIN call.out.rows[j].r = Range(call.required)
        /\ call.required = <<>> => call.out.raised = "no_required_columns"
        /\ (call.required # <<>> /\ ~(Range(call.required) \subseteq ColumnsAfterCleaning)) =>
              /\ call.out.raised = "missing_columns"
              /\ call.out.missing = Range(call.required) \ ColumnsAfterCleaning

\* C16: an empty raw input raises at once, before the column names are
\* standardised, a date is parsed or the contract is looked up; a non-empty
\* input of the feed's columns none of whose rows is valid returns an empty
\* record set.
C16_EmptyInputRaisesFirst ==
    Cleaned =>
        /\ Len(call.df.rows) = 0 =>
              (call.out.raised = "empty_frame" /\ call.out.steps = <<>>)
        /\ (/\ Len(call.df.rows) > 0
            /\ call.df.columns = RawColumns
            /\ call.required = FeedContract
            /\ \A i \in 1..Len(call.df.rows) : ~RowIsValid(i)) =>
              (call.out.raised = "none" /\ call.out.rows = <<>>)

\* two invalid rows were cleaned down to an empty record set
C16_Witness ==
    /\ CleanReturned
    /\ Len(call.df.rows) = 2
    /\ \A i \in 1..2 : ~RowIsValid(i)
    /\ call.out.rows = <<>>
    /\ call.out.steps[Len(call.out.steps)] = "project"

(***************************************************************************)
(* Properties of the archive writes (SpecArchive, SpecFlow).               *)
(***************************************************************************)

ArchiveCalled == call.fn \in {"upload_to_s3", "save_local"}

\* C17: an archive write of an empty record set raises before it touches
\* the store (no bucket lookup, no client, no write) and every object of
\* the store is what it was.
C17_EmptyArchiveRaises ==
    (ArchiveCalled /\ IsEmpty(call.df)) =>
        /\ call.out.raised
        /\ call.out.io = <<>>
        /\ call.out.store = call.store

\* upload_to_s3 was called with an empty record set for a key that held an
\* object, and nothing would have made the write fail
C17_Witness ==
    /\ call.fn = "upload_to_s3"
    /\ IsEmpty(call.df)
    /\ call.fault = "none"
    /\ call.store[call.file_name].stored
    /\ call.out.raised

\* C18: an ingestion run for (season, division) changes the object under
\* the key raw/<season>_<division>.parquet and no other object.
C18_ArchiveKeyLayout ==
    [][\A k \in Keys :
          archive'[k] # archive[k] =>
              k = [prefix |-> <<"raw">>, season |-> flow.season, division |-> flow.code]]_vars

(***************************************************************************)
(* Properties of ensure_division and get_current_season (SpecHelpers).     *)
(***************************************************************************)

\* C19: ensure_division returns a member of the enumeration unchanged,
\* converts a string equal to a code to the member of that code, answers
\* None with the Premier League, raises for every other argument, and never
\* returns anything outside the enumeration.
C19_EnsureDivisionTotal ==
    call.fn = "ensure_division" =>
        LET dv == call.division
            out == call.out
        IN  /\ dv.kind = "enum" => (out.ok /\ out.value = dv.val)
            /\ (dv.kind = "str" /\ dv.val \in {"E0", "E1", "E2", "E3", "EC"}) =>
                    (out.ok /\ out.value = dv.val)
            /\ dv.kind = "none" => (out.ok /\ out.value = "E0")
            /\ (dv.kind \notin {"enum", "none"}
                 /\ ~(dv.kind = "str" /\ dv.val \in {"E0", "E1", "E2", "E3", "EC"})) => ~out.ok
            /\ out.ok => out.value \in {"E0", "E1", "E2", "E3", "EC"}

\* ensure_division was called with a string that is no code and raised
C19_Witness ==
    /\ call.fn = "ensure_division"
    /\ call.division = [kind |-> "str", val |-> "e0"]
    /\ ~call.out.ok

\* the two decimal digits of n % 100
TwoDigits(n) == <<Digit[((n % 100) \div 10) + 1], Digit[(n % 10) + 1]>>

\* C20: for a clock in month m of year y the season starts in y if m >= 8
\* and in y - 1 otherwise, and the label is the last two digits of the start
\* year followed by the last two digits of the next year: 4 digits, also
\* across a century boundary (March 2024: 2324, August and December
\* 2024: 2425).
C20_SeasonLabel ==
    call.fn = "get_current_season" =>
        LET start == IF call.month >= 8 THEN call.year ELSE call.year - 1
        IN  /\ call.out.start = start
            /\ call.out.season = TwoDigits(start) \o TwoDigits(start + 1)
            /\ Len(call.out.season) = 4
            /\ \A i \in 1..4 : \E j \in 1..10 : call.out.season[i] = Digit[j]
            /\ (call.year = 2024 /\ call.month = 3) => call.out.season = <<"2", "3", "2", "4">>
            /\ (call.year = 2024 /\ call.month \in {8, 12}) =>
                    call.out.season = <<"2", "4", "2", "5">>

\* the clock read July 2000: the season 1999/2000, labelled 9900
C20_Witness ==
    /\ call.fn = "get_current_season"
    /\ call.year = 2000
    /\ call.month = 7
    /\ call.out.season = <<"9", "9", "0", "0">>

(***************************************************************************)
(* Properties of parse_match_date (SpecDates).                             *)
(***************************************************************************)

\* C21: parse_match_date never raises: for a missing value, an empty or
\* blank text, garbage or a text in a known layout it returns a day of the
\* calendar or NaT.
C21_ParseNeverRaises ==
    call.fn = "parse_match_date" =>
        /\ call.out.exc = "none"
        /\ \/ call.out.value = NaT
           \/ /\ call.out.value.t = "date"
              /\ ValidDate(call.out.value.y, call.out.value.m, call.out.value.d)

\* a text in a known layout that names no day of the calendar (31/02/2024)
\* was parsed: every layout raised inside, NaT came back
C21_Witness ==
    /\ call.fn = "parse_match_date"
    /\ call.date_str = DateText("%d/%m/%Y", 2024, 2, 31)
    /\ call.out = Value(NaT)

(***************************************************************************)
(* Properties of the result cache (SpecCache).                             *)
(***************************************************************************)

\* C22: results are cached under (season, division) for 6 days: an entry
\* is never served after its expiry, a failed fetch stores nothing, and a
\* task run one schedule interval (a week) after the run before it for the
\* same key is not served from the cache.
C22_CacheExpires ==
    /\ served.source = "cache" =>
          /\ cache[served.key].stored
          /\ served.at <= served.written + 6
    /\ served.source = "failed" => cache[served.key] = served.before
    /\ (served.source # "none" /\ served.since >= schedule_interval) => served.source # "cache"

\* the feed was fetched again a week after the run that stored the entry
C22_Witness ==
    /\ served.source = "feed"
    /\ served.since = schedule_interval
    /\ served.before.stored
    /\ served.before.written = served.at - schedule_interval

(***************************************************************************)
(* Properties of sequences of ingestion runs (SpecFlow).                   *)
(***************************************************************************)

\* C23: over ingestion runs that follow one another, each loading what
\* _clean_data returned, the table never holds two rows with the same
\* identity tuple.
C23_IdentityUnique == \A r \in Rows : table[r] <= 1

\* a second run has loaded its rows into the table an earlier run of
\* another season had loaded: the rows of both are there, each once
C23_Witness ==
    /\ runs = 2
    /\ ld.state = "Completed"
    /\ ~IsEmpty(cleaned)
    /\ \E r \in Rows : r.season # flow.season /\ table[r] = 1
    /\ \A r \in Rows : r.season = flow.season => table[r] = cleaned.rows[r]

(***************************************************************************)
(* Properties of the statements of one load (Spec).                        *)
(***************************************************************************)

\* how often x occurs in the sequence q
Count(q, x) == Cardinality({i \in 1..Len(q) : q[i] = x})

\* the statements of the call from connection.begin() on
FromBegin(q) ==
    IF Count(q, "begin") = 0 THEN <<>>
    ELSE SubSeq(q, CHOOSE i \in 1..Len(q) : q[i] = "begin", Len(q))

\* n deletes
Deletes(n) == [i \in 1..n |-> "delete"]

\* C24: on an existing table a load begins one transaction, issues one
\* delete per distinct season of its input, then one insert of all rows,
\* and commits after them; the transaction is ended once: by the commit
\* and no rollback when the call returns, by one rollback and no commit
\* when it raises.
C24_OneTransaction ==
    LET q == log[1]
        n == Cardinality(SeasonsOf(df[1]))
    IN  /\ Count(q, "begin") <= 1
        /\ Count(q, "commit") = 1 =>
              FromBegin(q) = <<"begin">> \o Deletes(n) \o <<"insert", "commit">>
        /\ (pc[1] = "idle" /\ result[1] = "ok" /\ seen[1] /\ ~IsEmpty(df[1])) =>
              /\ FromBegin(q) = <<"begin">> \o Deletes(n) \o <<"insert", "commit">>
              /\ Count(q, "rollback") = 0
        /\ (pc[1] = "idle" /\ result[1] = "raised" /\ Count(q, "begin") = 1) =>
              /\ Count(q, "rollback") = 1
              /\ q[Len(q)] = "rollback"
              /\ Count(q, "commit") = 0
              /\ Count(q, "delete") <= n
              /\ Count(q, "insert") <= 1

\* a load of two seasons was rolled back after its insert had raised
C24_Witness ==
    /\ pc[1] = "idle"
    /\ result[1] = "raised"
    /\ Cardinality(SeasonsOf(df[1])) = 2
    /\ FromBegin(log[1]) = <<"begin", "delete", "delete", "insert", "rollback">>

\* the archive write and the load have been submitted
Submitted == up.state # "none" /\ ld.state # "none"

\* C25: the archive write and the load are submitted together and only
\* after fetch-and-clean has returned; while it has not, archive and table
\* do not change; both tasks work on the cleaned record set, which does not
\* change while they run; the flow returns only when both are done.
C25_SubmitAfterFetch ==
    /\ []((up.state # "none" \/ ld.state # "none") => (Submitted /\ fetch.pc = "completed"))
    /\ []((flow.pc = "idle" /\ flow.state = "Completed") =>
            (up.state \in Final /\ ld.state \in Final))
    /\ [](up.state = "Completed" =>
            archive[file_name(flow.season, flow.code)] = [rows |-> cleaned.rows, stored |-> TRUE])
    /\ []((ld.state = "Completed" /\ ~IsEmpty(cleaned)) =>
            \A r \in Rows : r.season = flow.season => table[r] = cleaned.rows[r])
    /\ [][(archive' # archive \/ table' # table \/ tableExists' # tableExists) =>
            (flow.pc = "join" /\ fetch.pc = "completed")]_vars
    /\ [][flow.pc = "join" => cleaned' = cleaned]_vars

\* the load is done while the archive write, submitted before it, is
\* still running
C25_Witness ==
    /\ flow.pc = "join"
    /\ ld.state = "Completed"
    /\ up.state = "Running"
    /\ ~IsEmpty(cleaned)
    /\ ~archive[file_name(flow.season, flow.code)].stored

\* the rows the table holds for the season of the run are the cleaned rows
TableHoldsCleaned == \A r \in Rows : r.season = flow.season => table[r] = cleaned.rows[r]

\* the archive object of the run is the cleaned rows
ArchiveHoldsCleaned ==
    archive[file_name(flow.season, flow.code)] = [rows |-> cleaned.rows, stored |-> TRUE]

\* C26: when exactly one of archive write and load failed, what the other
\* one wrote is still there when the run is over; a run in which both
\* succeed, also one that follows such a half-done run of its (season,
\* division), leaves the archive object and the table's rows of the season
\* equal to its cleaned rows.
C26_RerunReconverges ==
    /\ (flow.pc = "idle" /\ up.state = "Completed" /\ ld.state = "Failed") => ArchiveHoldsCleaned
    /\ (flow.pc = "idle" /\ up.state = "Failed" /\ ld.state = "Completed" /\ ~IsEmpty(cleaned)) =>
          TableHoldsCleaned
    /\ (up.state = "Completed" /\ ld.state = "Completed") =>
          (ArchiveHoldsCleaned /\ TableHoldsCleaned)

\* both tasks of a run have succeeded, and the run before it for the same
\* (season, division) had ended with one of them failed
C26_Witness ==
    /\ flow.pc = "join"
    /\ up.state = "Completed"
    /\ ld.state = "Completed"
    /\ [season |-> flow.season, division |-> flow.code] \in partial
    /\ ArchiveHoldsCleaned
    /\ TableHoldsCleaned

(***************************************************************************)
(* Properties of the training pipeline (SpecTraining).                     *)
(***************************************************************************)

\* C27: a model is registered, and given the production and staging
\* aliases, only if validate_model_performance passed it: no version and
\* no alias of the registry belongs to a model whose accuracy or F1-macro is
\* below its threshold.
C27_RegisteredOnlyIfValidated ==
    /\ \A v \in registry.versions : Passes(v.metrics)
    /\ registry.production # NoMetrics => Passes(registry.production)
    /\ registry.staging # NoMetrics => Passes(registry.staging)

\* C28: when no run is in progress and no (season, division) pair is left
\* half-done, archive and table agree: for every pair with an archive
\* object the table holds exactly the rows of that object for the pair,
\* also after a later run for another division of the same season.
C28_ArchiveAndTableAgree ==
    (flow.pc = "idle" /\ partial = {}) =>
        \A k \in Keys :
            archive[k].stored =>
                \A r \in Rows :
                    (r.season = k.season /\ r.div = k.division) => table[r] = archive[k].rows[r]

(***************************************************************************)
(* Properties of the backfill (SpecBackfill, SpecBackfillLive).            *)
(***************************************************************************)

\* the seasons of the deployment runs made so far, in order
RECURSIVE RunsOf(_)
RunsOf(q) ==
    IF q = <<>> THEN <<>>
    ELSE IF Head(q).e = "run" THEN <<Head(q).season>> \o RunsOf(Tail(q))
    ELSE RunsOf(Tail(q))

\* the seasons of the sequence q
Members(q) == {q[j] : j \in 1..Len(q)}

\* the label of the season that starts in year y
SeasonOf(y) == TwoDigits(y) \o TwoDigits(y + 1)

\* C29: the backfill runs the deployment once per season of the range, in
\* ascending order; a run that raises or does not complete stops nothing:
\* the call ends, it raises only when the range is empty, and on return
\* every season has been run and is in exactly one of the two lists.
C29_EverySeasonOnce ==
    /\ [](\A j \in 1..Len(RunsOf(backfill.events)) :
              /\ j <= backfill.end_year - backfill.start_year + 1
              /\ RunsOf(backfill.events)[j] = SeasonOf(backfill.start_year + j - 1))
    /\ [](backfill.pc = "raised" => backfill.end_year < backfill.start_year)
    /\ [](backfill.pc = "returned" =>
            /\ Len(RunsOf(backfill.events)) = backfill.end_year - backfill.start_year + 1
            /\ Members(backfill.successful_runs) \cup Members(backfill.failed_runs)
                    = Members(RunsOf(backfill.events))
            /\ Members(backfill.successful_runs) \cap Members(backfill.failed_runs) = {}
            /\ Len(backfill.successful_runs) + Len(backfill.failed_runs)
                    = Len(RunsOf(backfill.events)))
    /\ <>(backfill.pc \in {"returned", "raised"})

\* the backfill has returned: the run of the first season raised or did
\* not complete, the seasons after it were run and one of them succeeded
C29_Witness ==
    /\ backfill.pc = "returned"
    /\ Len(backfill.seasons) >= 2
    /\ backfill.failed_runs # <<>>
    /\ backfill.failed_runs[1] = backfill.seasons[1]
    /\ backfill.seasons[2] \in Members(backfill.successful_runs)

====
